---------------------------- MODULE Spec2Model ----------------------------
(***************************************************************************)
(* Verification model of the retail product label scanner                  *)
(* (NexusBlueDev/retail-product-label-system).                             *)
(*                                                                         *)
(* Text that the code inspects character by character (style numbers,      *)
(* brands, colours, sizes, SKUs, barcodes) is a sequence of one-character  *)
(* strings; text that the code only concatenates or compares as a whole    *)
(* (names, notes) is a TLA+ string.                                        *)
(***************************************************************************)
EXTENDS Integers, Sequences, FiniteSets, TLC

VARIABLES
    (* sku-generator.js: the arguments and the result of generateSKU *)
    skuPc, skuArgs, skuResult,
    (* ai-extraction.js: the merge loop of extractProductData *)
    mergePc, results, mergeI, mergedData, mergeThrown,
    (* database.js: a call of fetchProductForEdit against a table *)
    fetchPc, fetchTable, fetchArgs, fetchOutcome, fetchResult,
    (* the application: the form's fields, the other elements of dom.js, the
       state object of state.js, the scanner's registered callback, the
       running timers, the requests and answers in flight, the products
       table of the store *)
    form, dom, state, detectionHandler, timers, pending, products,
    (* the decoder library: whether it is loaded, the starts waiting for it,
       the callbacks registered with it; and the events the handler that ran
       last emitted on the event bus *)
    quagga, emitted,
    (* auth.js and startApp: the clock in minutes, the session kept in
       localStorage, the ensureAuthenticated call in flight and how the last
       one ended, the page's startup *)
    clock, nbSession, authPc, authResult, startup,
    (* database.js: the store exportData reads and the export in progress *)
    exportStore, export,
    (* ai-extraction.js: the requests and the response bodies of the
       extractProductData call in progress *)
    transfer,
    (* app.js: the debounced duplicate check of the barcode field on a clock
       in milliseconds: the timeouts set, the input events and the calls of
       the debounced function so far *)
    typing,
    (* image-handler.js: the files being read, the previews of
       state.currentImages and the object URLs created and not revoked *)
    previews,
    (* image-handler.js: the source image of a compressImageToWebP call and the
       canvas it is drawn on *)
    encode,
    (* user-auth.js: the login overlay, the PIN checks and user creations in
       flight, the current user *)
    login

skuVars == <<skuPc, skuArgs, skuResult>>

mergeVars == <<mergePc, results, mergeI, mergedData, mergeThrown>>

fetchVars == <<fetchPc, fetchTable, fetchArgs, fetchOutcome, fetchResult>>

appVars == <<form, dom, state, detectionHandler, timers, pending, products, quagga, emitted>>

authVars == <<clock, nbSession, authPc, authResult, startup>>

exportVars == <<exportStore, export>>

transferVars == <<transfer>>

debounceVars == <<typing>>

previewVars == <<previews>>

compressVars == <<encode>>

loginVars == <<login>>

vars == <<skuVars, mergeVars, fetchVars, appVars, authVars, exportVars, transferVars, debounceVars, previewVars, compressVars, loginVars>>

-----------------------------------------------------------------------------
(* Bounds of the model *)

\* longest free-form tail appended to a style number drawn for generateSKU
MaxTail == 1

\* most images sent in one extraction
MaxImages == 2

\* most rows of the products table a lookup runs against
MaxRows == 2

\* most images selected at a time
MaxSelected == 1

\* most save requests sent in one session
MaxSaves == 2

\* most scanner starts waiting for the decoder library at a time
MaxStarts == 2

\* the last minute the clock is followed to
MaxClock == 120

\* most records in the store an export reads
MaxRecords == 5

\* the clock of the barcode field runs to MaxMs milliseconds and sees at most
\* MaxInputs input events
MaxMs == 1500

MaxInputs == 3

\* most object URLs created in one session
MaxPreviews == 5

\* the widest source image of the range of widths encoded
MaxWidth == 2150

-----------------------------------------------------------------------------
(* Characters and JavaScript string primitives *)

LowerLetters == <<"a","b","c","d","e","f","g","h","i","j","k","l","m","n","o","p","q","r","s","t","u","v","w","x","y","z">>

UpperLetters == <<"A","B","C","D","E","F","G","H","I","J","K","L","M","N","O","P","Q","R","S","T","U","V","W","X","Y","Z">>

Digits == {"0","1","2","3","4","5","6","7","8","9"}

Range(s) == {s[i] : i \in DOMAIN s}

IsUpperLetter(c) == c \in Range(UpperLetters)

\* the regular expression class \s (the blank is the only one the inputs use)
IsWhitespace(c) == c \in {" "}

\* String.prototype.toUpperCase, one character
ToUpperChar(c) ==
    IF \E i \in DOMAIN LowerLetters : LowerLetters[i] = c
    THEN UpperLetters[CHOOSE i \in DOMAIN LowerLetters : LowerLetters[i] = c]
    ELSE c

\* String.prototype.toLowerCase, one character
ToLowerChar(c) ==
    IF \E i \in DOMAIN UpperLetters : UpperLetters[i] = c
    THEN LowerLetters[CHOOSE i \in DOMAIN UpperLetters : UpperLetters[i] = c]
    ELSE c

ToUpperCase(s) == [i \in DOMAIN s |-> ToUpperChar(s[i])]

ToLowerCase(s) == [i \in DOMAIN s |-> ToLowerChar(s[i])]

\* String.prototype.substring(0, n)
Substring0(s, n) == IF Len(s) <= n THEN s ELSE SubSeq(s, 1, n)

RECURSIVE TrimStart(_)
TrimStart(s) ==
    IF s # <<>> /\ IsWhitespace(Head(s)) THEN TrimStart(Tail(s)) ELSE s

RECURSIVE TrimEnd(_)
TrimEnd(s) ==
    IF s # <<>> /\ IsWhitespace(s[Len(s)]) THEN TrimEnd(SubSeq(s, 1, Len(s) - 1)) ELSE s

\* String.prototype.trim
Trim(s) == TrimEnd(TrimStart(s))

\* String.prototype.includes
Includes(s, needle) ==
    \E i \in 0..(Len(s) - Len(needle)) : SubSeq(s, i + 1, i + Len(needle)) = needle

-----------------------------------------------------------------------------
(* sku-generator.js *)

BRAND_MAP ==
    << [key |-> <<"N","I","K","E">>, code |-> <<"N","K">>],
       [key |-> <<"A","D","I","D","A","S">>, code |-> <<"A","D">>],
       [key |-> <<"U","N","D","E","R"," ","A","R","M","O","U","R">>, code |-> <<"U","A">>],
       [key |-> <<"P","U","M","A">>, code |-> <<"P","M">>],
       [key |-> <<"R","E","E","B","O","K">>, code |-> <<"R","B">>],
       [key |-> <<"N","E","W"," ","B","A","L","A","N","C","E">>, code |-> <<"N","B">>],
       [key |-> <<"V","A","N","S">>, code |-> <<"V","N">>],
       [key |-> <<"C","O","N","V","E","R","S","E">>, code |-> <<"C","V">>],
       [key |-> <<"J","O","R","D","A","N">>, code |-> <<"J","D">>],
       [key |-> <<"W","R","A","N","G","L","E","R">>, code |-> <<"W","R">>],
       [key |-> <<"L","E","V","I">>, code |-> <<"L","V">>],
       [key |-> <<"L","E","V","I","S">>, code |-> <<"L","V">>],
       [key |-> <<"C","A","R","H","A","R","T","T">>, code |-> <<"C","H">>],
       [key |-> <<"D","I","C","K","I","E","S">>, code |-> <<"D","K">>],
       [key |-> <<"C","O","L","E"," ","H","A","A","N">>, code |-> <<"C","H">>],
       [key |-> <<"T","I","M","B","E","R","L","A","N","D">>, code |-> <<"T","B">>] >>

COLOR_MAP ==
    << [key |-> <<"B","L","A","C","K">>, code |-> <<"B","L","K">>],
       [key |-> <<"W","H","I","T","E">>, code |-> <<"W","H","T">>],
       [key |-> <<"R","E","D">>, code |-> <<"R","E","D">>],
       [key |-> <<"B","L","U","E">>, code |-> <<"B","L","U">>],
       [key |-> <<"N","A","V","Y">>, code |-> <<"N","V","Y">>],
       [key |-> <<"G","R","A","Y">>, code |-> <<"G","R","Y">>],
       [key |-> <<"G","R","E","Y">>, code |-> <<"G","R","Y">>],
       [key |-> <<"G","R","E","E","N">>, code |-> <<"G","R","N">>],
       [key |-> <<"Y","E","L","L","O","W">>, code |-> <<"Y","E","L">>],
       [key |-> <<"O","R","A","N","G","E">>, code |-> <<"O","R","G">>],
       [key |-> <<"P","U","R","P","L","E">>, code |-> <<"P","U","R">>],
       [key |-> <<"P","I","N","K">>, code |-> <<"P","N","K">>],
       [key |-> <<"B","R","O","W","N">>, code |-> <<"B","R","N">>],
       [key |-> <<"T","A","N">>, code |-> <<"T","A","N">>],
       [key |-> <<"K","H","A","K","I">>, code |-> <<"K","H","K">>],
       [key |-> <<"B","E","I","G","E">>, code |-> <<"B","G","E">>] >>

\* MAP[key] || fallback
MapLookup(map, key, fallback) ==
    IF \E i \in DOMAIN map : map[i].key = key
    THEN map[CHOOSE i \in DOMAIN map : map[i].key = key].code
    ELSE fallback

\* /[^A-Z0-9\-_.\/]/ : the characters a style code keeps
IsStyleChar(c) == IsUpperLetter(c) \/ c \in Digits \/ c \in {"-", "_", ".", "/"}

\* /[^A-Z0-9X]/ : the characters a size code keeps
IsSizeChar(c) == IsUpperLetter(c) \/ c \in Digits \/ c = "X"

NotWhitespace(c) == ~IsWhitespace(c)

\* the style segment: upper-cased, blanks and invalid characters removed,
\* cut to 8 characters when longer than 10
StyleCode(style) ==
    LET cleaned == SelectSeq(SelectSeq(ToUpperCase(style), NotWhitespace), IsStyleChar)
    IN  IF Len(cleaned) > 10 THEN Substring0(cleaned, 8) ELSE cleaned

BrandCode(brand) ==
    MapLookup(BRAND_MAP, ToUpperCase(brand), ToUpperCase(Substring0(brand, 2)))

ColorCode(color) ==
    MapLookup(COLOR_MAP, ToUpperCase(color), ToUpperCase(Substring0(color, 3)))

SizeCode(size) ==
    LET cleaned == SelectSeq(SelectSeq(ToUpperCase(size), NotWhitespace), IsSizeChar)
    IN  IF Len(cleaned) > 6 THEN Substring0(cleaned, 6) ELSE cleaned

\* the SKU before the final cut to 15 characters
AssembleSKU(style, brand, color, size) ==
    StyleCode(style)
        \o (IF brand # <<>> THEN <<"-">> \o BrandCode(brand) ELSE <<>>)
        \o (IF color # <<>> THEN <<"-">> \o ColorCode(color) ELSE <<>>)
        \o (IF size # <<>> THEN <<"-">> \o SizeCode(size) ELSE <<>>)

\* a generateSKU that forgets the final cut to 15 characters
generateSKU_NoCut(style0, brand0, color0, size0) ==
    IF Trim(style0) = <<>> THEN <<>>
    ELSE AssembleSKU(Trim(style0), Trim(brand0), Trim(color0), Trim(size0))

generateSKU(style0, brand0, color0, size0) ==
    LET style == Trim(style0)
        brand == Trim(brand0)
        color == Trim(color0)
        size  == Trim(size0)
    IN  IF style = <<>> THEN <<>>
        ELSE Substring0(AssembleSKU(style, brand, color, size), 15)

-----------------------------------------------------------------------------
(* The inputs generateSKU is applied to *)

StylePads ==
    { <<>>,
      <<"D","D","1","3","8","3","1","0","0">>,
      <<"a","b","c","d","e","f","g","h","-","1","2">> }

StyleAlphabet == {"a", "1", " ", "@", "-"}

RECURSIVE SeqsUpTo(_, _)
SeqsUpTo(S, n) ==
    IF n = 0 THEN { <<>> }
    ELSE LET shorter == SeqsUpTo(S, n - 1)
         IN  shorter \cup { s \o <<c>> : s \in shorter, c \in S }

StyleInputs == { p \o t : p \in StylePads, t \in SeqsUpTo(StyleAlphabet, MaxTail) }

BrandInputs ==
    { <<>>, <<" ">>, <<"q">>, <<"N","i","k","e">>, <<"z","e","d">>,
      <<"n","e","w"," ","b","a","l","a","n","c","e">> }

ColorInputs == { <<>>, <<" "," ">>, <<"B","l","a","c","k">>, <<"t","e","a","l">> }

SizeInputs ==
    { <<>>, <<"9">>, <<"-","-">>, <<"1","5"," ","x"," ","3","2">>,
      <<"1","0",".","5"," ","W","i","d","e"," ","X","L">> }

SKUIdle ==
    /\ skuPc = "idle"
    /\ skuArgs = [style |-> <<>>, brand |-> <<>>, color |-> <<>>, size |-> <<>>]
    /\ skuResult = <<>>

SKUInit ==
    /\ skuPc = "call"
    /\ skuArgs \in [style : StyleInputs, brand : BrandInputs,
                    color : ColorInputs, size : SizeInputs]
    /\ skuResult = <<>>

GenerateSKUCall ==
    /\ skuPc = "call"
    /\ skuPc' = "returned"
    /\ skuResult' = generateSKU(skuArgs.style, skuArgs.brand, skuArgs.color, skuArgs.size)
    /\ UNCHANGED skuArgs

SKUNext == GenerateSKUCall

-----------------------------------------------------------------------------
(* ai-extraction.js: the responses of the extraction endpoint and the merge *)

\* a field the JSON object does not carry (undefined)
Absent == "<absent>"

\* An optional number is a set of at most one number: {} when the field is
\* absent, {n} when it holds n.
NoNumber == {}

\* JavaScript truthiness of an optional string and of an optional number
TruthyStr(v) == v # Absent /\ v # ""

TruthyNum(v) == v # NoNumber /\ v # {0}

Positive(v) == \E n \in v : n > 0

\* mergedData = {}
EmptyData == [name |-> Absent, retail_price |-> NoNumber, notes |-> Absent]

RateLimitText == <<"R","a","t","e"," ","l","i","m","i","t"," ","e","x","c","e","e","d","e","d">>

OtherErrorText == <<"N","o"," ","l","a","b","e","l">>

RateLimitNeedle == <<"r","a","t","e"," ","l","i","m","i","t">>

\* the error texts a response may carry (<<>>: no error field)
ErrorTexts == { <<>>, RateLimitText, OtherErrorText }

\* the messages extractProductData throws from the merge loop
RateLimitMessage == "Rate limit reached. Please wait 60 seconds and try again."

ExtractionFailed(i) == "Extraction failed for image " \o ToString(i + 1)

ErrorMessage(text) ==
    IF text = RateLimitText THEN "Rate limit exceeded" ELSE "No label"

\* a later image's notes when no notes existed, forgetting the "Image n: " label
NotesOfLaterImage_Bare(previous, i, new) ==
    IF TruthyStr(previous)
    THEN previous \o "; Additional from image " \o ToString(i + 1) \o ": " \o new
    ELSE new

\* lines 91-93: the notes after image i (zero-based, i >= 1) brought `new`
NotesOfLaterImage(previous, i, new) ==
    IF TruthyStr(previous)
    THEN previous \o "; Additional from image " \o ToString(i + 1) \o ": " \o new
    ELSE "Image " \o ToString(i + 1) \o ": " \o new

\* a merge in which a later image overwrites the name as well
MergeImage_NameToo(merged, data, i) ==
    IF i = 0 THEN data
    ELSE [merged EXCEPT
            !.name = IF TruthyStr(data.name) THEN data.name ELSE @,
            !.retail_price = IF TruthyNum(data.retail_price) /\ Positive(data.retail_price)
                             THEN data.retail_price ELSE @,
            !.notes = IF TruthyStr(data.notes)
                      THEN NotesOfLaterImage(@, i, data.notes) ELSE @]

\* lines 85-95: one successful image merged into mergedData
MergeImage(merged, data, i) ==
    IF i = 0 THEN data
    ELSE [merged EXCEPT
            !.retail_price = IF TruthyNum(data.retail_price) /\ Positive(data.retail_price)
                             THEN data.retail_price ELSE @,
            !.notes = IF TruthyStr(data.notes)
                      THEN NotesOfLaterImage(@, i, data.notes) ELSE @]

\* lines 78-83: what the loop throws for result i, "" when it throws nothing
ThrownFor(result, i) ==
    IF result.error # <<>> /\ Includes(ToLowerCase(result.error), RateLimitNeedle)
    THEN RateLimitMessage
    ELSE IF ~result.success
    THEN (IF result.error # <<>> THEN ErrorMessage(result.error) ELSE ExtractionFailed(i))
    ELSE ""

\* lines 74-96 as a whole: the loop over results[from..], starting from merged
RECURSIVE MergeFrom(_, _, _)
MergeFrom(rs, i, merged) ==
    IF i >= Len(rs) THEN [thrown |-> "", data |-> merged]
    ELSE IF ThrownFor(rs[i + 1], i) # ""
    THEN [thrown |-> ThrownFor(rs[i + 1], i), data |-> merged]
    ELSE MergeFrom(rs, i + 1, MergeImage(merged, rs[i + 1].data, i))

MergeAll(rs) == MergeFrom(rs, 0, EmptyData)

(* The per-image responses the merge is applied to *)

ImageData ==
    [name : {Absent, "X", "Y"}, retail_price : {NoNumber, {0}, {10}, {15}},
     notes : {Absent, "", "dented"}]

ImageResults ==
    { [success |-> TRUE, error |-> <<>>, data |-> d] : d \in ImageData }
    \cup { [success |-> FALSE, error |-> e, data |-> EmptyData] : e \in ErrorTexts }

RECURSIVE SeqsOfLen(_, _)
SeqsOfLen(S, n) ==
    IF n = 0 THEN { <<>> }
    ELSE { s \o <<x>> : s \in SeqsOfLen(S, n - 1), x \in S }

MergeIdle ==
    /\ mergePc = "idle"
    /\ results = <<>>
    /\ mergeI = 0
    /\ mergedData = EmptyData
    /\ mergeThrown = ""

MergeInit ==
    /\ mergePc = "loop"
    /\ \E n \in 1..MaxImages : results \in SeqsOfLen(ImageResults, n)
    /\ mergeI = 0
    /\ mergedData = EmptyData
    /\ mergeThrown = ""

\* one iteration of the loop of lines 75-96
MergeIteration ==
    /\ mergePc = "loop"
    /\ mergeI < Len(results)
    /\ LET result == results[mergeI + 1]
           thrown == ThrownFor(result, mergeI)
       IN  IF thrown # ""
           THEN /\ mergePc' = "thrown"
                /\ mergeThrown' = thrown
                /\ UNCHANGED <<mergeI, mergedData>>
           ELSE /\ mergedData' = MergeImage(mergedData, result.data, mergeI)
                /\ mergeI' = mergeI + 1
                /\ UNCHANGED <<mergePc, mergeThrown>>
    /\ UNCHANGED results

\* the loop ends: line 98 takes mergedData
MergeDone ==
    /\ mergePc = "loop"
    /\ mergeI = Len(results)
    /\ mergePc' = "merged"
    /\ UNCHANGED <<results, mergeI, mergedData, mergeThrown>>

-----------------------------------------------------------------------------
(* The products table of the backing store *)

\* a 12-digit (UPC-A) and a 13-digit (EAN-13) code
Code12 == [i \in 1..12 |-> "1"]

Code13 == [i \in 1..13 |-> "2"]

\* the barcodes and SKUs of stored rows; <<>> stands for SQL NULL
RowBarcodes == { <<>>, Code12, Code13 }

RowSkus == { <<>>, <<"A">>, <<"B">> }

RowIds == 1..MaxRows

\* no row: the null fetchProductForEdit returns, an unset state.lastSavedProduct
NoProduct == [id |-> 0, name |-> "", style_number |-> <<>>, sku |-> <<>>, barcode |-> <<>>]

\* the table's constraints: primary key id, unique sku, unique barcode
\* (NULLs do not collide)
UniqueRows(table) ==
    \A r1, r2 \in table :
        r1 # r2 =>
            /\ r1.id # r2.id
            /\ r1.sku = <<>> \/ r1.sku # r2.sku
            /\ r1.barcode = <<>> \/ r1.barcode # r2.barcode

\* GET products?<param>=eq.<value>&select=* : the matching rows, by id
RECURSIVE RowsInOrder(_)
RowsInOrder(rows) ==
    IF rows = {} THEN <<>>
    ELSE LET first == CHOOSE r \in rows : \A q \in rows : r.id <= q.id
         IN  <<first>> \o RowsInOrder(rows \ {first})

QueryById(table, id) == RowsInOrder({ r \in table : r.id = id })

QueryByBarcode(table, barcode) == RowsInOrder({ r \in table : r.barcode = barcode })

QueryBySku(table, sku) == RowsInOrder({ r \in table : r.sku = sku })

-----------------------------------------------------------------------------
(* database.js: fetchProductForEdit *)

\* How one lookup ends: "rows" (the JSON array of matching rows), "error"
\* (an error object, which has no length) or "rejected" (fetch or r.json()
\* rejects, so Promise.all rejects).
LookupOutcomes == {"rows", "error", "rejected"}

\* the lookups fired: a key that is null, 0 or '' is not looked up
Issued(productId, barcode, sku) ==
    (IF productId # 0 THEN {"id"} ELSE {})
        \cup (IF barcode # <<>> THEN {"barcode"} ELSE {})
        \cup (IF sku # <<>> THEN {"sku"} ELSE {})

\* what `x && x.length > 0` sees of one lookup: its rows, <<>> when the lookup
\* was not fired or answered with an error object
Answer(issued, key, outcome, rows) ==
    IF key \in issued /\ outcome[key] = "rows" THEN rows ELSE <<>>

\* a fetchProductForEdit that prefers the barcode match to the id match
fetchProductForEdit_BarcodeFirst(table, productId, barcode, sku, outcome) ==
    LET issued == Issued(productId, barcode, sku)
        byId == Answer(issued, "id", outcome, QueryById(table, productId))
        byBarcode == Answer(issued, "barcode", outcome, QueryByBarcode(table, barcode))
        bySku == Answer(issued, "sku", outcome, QueryBySku(table, sku))
    IN  IF \E k \in issued : outcome[k] = "rejected" THEN NoProduct
        ELSE IF Len(byBarcode) > 0 THEN byBarcode[1]
        ELSE IF Len(byId) > 0 THEN byId[1]
        ELSE IF Len(bySku) > 0 THEN bySku[1]
        ELSE NoProduct

fetchProductForEdit(table, productId, barcode, sku, outcome) ==
    LET issued == Issued(productId, barcode, sku)
        byId == Answer(issued, "id", outcome, QueryById(table, productId))
        byBarcode == Answer(issued, "barcode", outcome, QueryByBarcode(table, barcode))
        bySku == Answer(issued, "sku", outcome, QueryBySku(table, sku))
    IN  IF \E k \in issued : outcome[k] = "rejected" THEN NoProduct
        ELSE IF Len(byId) > 0 THEN byId[1]
        ELSE IF Len(byBarcode) > 0 THEN byBarcode[1]
        ELSE IF Len(bySku) > 0 THEN bySku[1]
        ELSE NoProduct

(* The tables and keys fetchProductForEdit is applied to *)

Rows == [id : RowIds, name : {"X"}, style_number : {<<>>}, sku : RowSkus, barcode : RowBarcodes]

\* every set of rows that meets the constraints; with ids unique it holds at
\* most one row for each id, so it is the rows a choice per id leaves
Tables ==
    { t \in { { f[i] : i \in RowIds } \ {NoProduct} :
                 f \in [RowIds -> Rows \cup {NoProduct}] } : UniqueRows(t) }

AllRows == [k \in {"id", "barcode", "sku"} |-> "rows"]

FetchIdle ==
    /\ fetchPc = "idle"
    /\ fetchTable = {}
    /\ fetchArgs = [productId |-> 0, barcode |-> <<>>, sku |-> <<>>]
    /\ fetchOutcome = AllRows
    /\ fetchResult = NoProduct

FetchInit ==
    /\ fetchPc = "call"
    /\ fetchTable \in Tables
    /\ fetchArgs \in [productId : 0..MaxRows, barcode : RowBarcodes, sku : RowSkus]
    /\ fetchOutcome = AllRows
    /\ fetchResult = NoProduct

\* the call, with every way the lookups it fires can end
FetchProductForEditCall ==
    /\ fetchPc = "call"
    /\ \E outcome \in [{"id", "barcode", "sku"} -> LookupOutcomes] :
          /\ \A k \in {"id", "barcode", "sku"} :
                k \notin Issued(fetchArgs.productId, fetchArgs.barcode, fetchArgs.sku)
                    => outcome[k] = "rows"
          /\ fetchOutcome' = outcome
          /\ fetchResult' = fetchProductForEdit(fetchTable, fetchArgs.productId,
                                fetchArgs.barcode, fetchArgs.sku, outcome)
    /\ fetchPc' = "returned"
    /\ UNCHANGED <<fetchTable, fetchArgs>>

-----------------------------------------------------------------------------
(* The application: the form and the functions that read and write it *)

\* `data.k || ''` for a text field k: <<>> when the object lacks the field
Str(data, k) == IF k \in DOMAIN data THEN data[k] ELSE <<>>

\* form.reset(): every field back to its empty default
EmptyForm ==
    [name |-> "", style_number |-> <<>>, sku |-> <<>>, barcode |-> <<>>,
     brand_name |-> <<>>, color |-> <<>>, size_or_dimensions |-> <<>>]

\* state.extractedData = null
NoData == [name |-> Absent]

\* sku-generator.js: generateSKUFromForm
generateSKUFromForm(f) ==
    generateSKU(f.style_number, f.brand_name, f.color, f.size_or_dimensions)

\* a populateForm that writes the barcode whatever the field's data-source
populateForm_IgnoreSource(f, source, data) ==
    LET written ==
            [f EXCEPT
               !.name = IF data.name = Absent THEN "" ELSE data.name,
               !.style_number = IF Str(data, "style_number") # <<>>
                                THEN data.style_number ELSE Str(data, "sku"),
               !.barcode = Str(data, "barcode"),
               !.brand_name = Str(data, "brand_name"),
               !.size_or_dimensions = Str(data, "size_or_dimensions"),
               !.color = Str(data, "color")]
        generatedSKU == generateSKUFromForm(written)
    IN  [written EXCEPT !.sku = IF generatedSKU # <<>> THEN generatedSKU ELSE @]

\* form-manager.js: populateForm, the form it leaves; source is the barcode
\* field's data-source attribute
populateForm(f, source, data) ==
    LET written ==
            [f EXCEPT
               !.name = IF data.name = Absent THEN "" ELSE data.name,
               !.style_number = IF Str(data, "style_number") # <<>>
                                THEN data.style_number ELSE Str(data, "sku"),
               !.barcode = IF source # "scanned" THEN Str(data, "barcode") ELSE @,
               !.brand_name = Str(data, "brand_name"),
               !.size_or_dimensions = Str(data, "size_or_dimensions"),
               !.color = Str(data, "color")]
        generatedSKU == generateSKUFromForm(written)
    IN  [written EXCEPT !.sku = IF generatedSKU # <<>> THEN generatedSKU ELSE @]

\* form-manager.js: collectFormData (<<>> stands for null)
collectFormData(f) ==
    [name |-> f.name, style_number |-> f.style_number, sku |-> ToUpperCase(f.sku),
     barcode |-> f.barcode]

\* the debounce timer of the barcode input: whether it is pending, and the
\* value it will pass on
TimerOff == [armed |-> FALSE, value |-> <<>>]

\* the input listener of the barcode field: debouncedBarcodeCheck(value.trim())
BarcodeInputEvent(value) == [armed |-> TRUE, value |-> Trim(value)]

\* database.js: checkBarcodeExists up to its fetch: "skip" while editing,
\* "clear" the warning for a value that is not 12 or 13 long, else "send"
CheckBarcodeStep(editingId, barcode) ==
    IF editingId # 0 THEN "skip"
    ELSE IF barcode = <<>> \/ Len(barcode) \notin {12, 13} THEN "clear"
    ELSE "send"

\* app.js: the debounced function: checkBarcodeExists only if /^\d{12,13}$/
DebouncedStep(editingId, value) ==
    IF Len(value) \in {12, 13} /\ (\A i \in DOMAIN value : value[i] \in Digits)
    THEN CheckBarcodeStep(editingId, value)
    ELSE "skip"

(* saveProduct: the errors of a save and the messages shown for them *)

SkuViolationText == <<"d","u","p","l","i","c","a","t","e"," ","k","e","y"," ","v","a","l","u","e"," ","v","i","o","l","a","t","e","s"," ","u","n","i","q","u","e"," ","c","o","n","s","t","r","a","i","n","t"," ","\"","u","n","i","q","u","e","_","s","k","u","\"">>

BarcodeViolationText == <<"d","u","p","l","i","c","a","t","e"," ","k","e","y"," ","v","a","l","u","e"," ","v","i","o","l","a","t","e","s"," ","u","n","i","q","u","e"," ","c","o","n","s","t","r","a","i","n","t"," ","\"","u","n","i","q","u","e","_","b","a","r","c","o","d","e","\"">>

\* errors of a save that are no uniqueness violation: a violated row-level
\* security policy, and a request that never reached the store
OtherSaveErrors ==
    { <<"n","e","w"," ","r","o","w"," ","v","i","o","l","a","t","e","s"," ","r","o","w","-","l","e","v","e","l"," ","s","e","c","u","r","i","t","y"," ","p","o","l","i","c","y">>,
      <<"F","a","i","l","e","d"," ","t","o"," ","f","e","t","c","h">> }

\* lines 174-176: is the error a duplicate error
IsDuplicateError(errorMessage) ==
    \/ Includes(ToLowerCase(errorMessage), <<"d","u","p","l","i","c","a","t","e">>)
    \/ Includes(ToLowerCase(errorMessage), <<"u","n","i","q","u","e">>)
    \/ Includes(errorMessage, <<"2","3","5","0","5">>)

\* a classification that knows the SKU constraint only
DuplicateField_SkuOnly(errorMessage) ==
    IF \/ Includes(ToLowerCase(errorMessage), <<"s","k","u">>)
       \/ Includes(errorMessage, <<"u","n","i","q","u","e","_","s","k","u">>)
    THEN <<"A"," ","p","r","o","d","u","c","t"," ","w","i","t","h"," ","t","h","i","s"," ","S","K","U">>
    ELSE <<"T","h","i","s"," ","p","r","o","d","u","c","t">>

\* lines 179-184: which field is the duplicate
DuplicateField(errorMessage) ==
    IF \/ Includes(ToLowerCase(errorMessage), <<"s","k","u">>)
       \/ Includes(errorMessage, <<"u","n","i","q","u","e","_","s","k","u">>)
    THEN <<"A"," ","p","r","o","d","u","c","t"," ","w","i","t","h"," ","t","h","i","s"," ","S","K","U">>
    ELSE IF \/ Includes(ToLowerCase(errorMessage), <<"b","a","r","c","o","d","e">>)
            \/ Includes(errorMessage, <<"u","n","i","q","u","e","_","b","a","r","c","o","d","e">>)
    THEN <<"A"," ","p","r","o","d","u","c","t"," ","w","i","t","h"," ","t","h","i","s"," ","b","a","r","c","o","d","e">>
    ELSE <<"T","h","i","s"," ","p","r","o","d","u","c","t">>

\* line 188: the text of the duplicate dialog
DuplicateMessage(errorMessage) ==
    DuplicateField(errorMessage)
        \o <<" ","a","l","r","e","a","d","y"," ","e","x","i","s","t","s"," ","i","n"," ","t","h","e"," ","d","a","t","a","b","a","s","e">>

\* showStatus(message): the message's fixed text and the error text spliced in
NoStatus == [text |-> "", detail |-> <<>>]

\* lines 195-199: the status of an error that is no duplicate
SaveErrorStatus(errorMessage) ==
    IF Includes(errorMessage, <<"v","i","o","l","a","t","e","s">>)
    THEN [text |-> "DATABASE ERROR: ", detail |-> errorMessage]
    ELSE [text |-> "SAVE ERROR: ", detail |-> errorMessage]

(* The store's side of a save: the unique constraints unique_sku and
   unique_barcode on the products table *)

\* the stored rows a written row collides with in column col
Collisions(table, data, ownId, col) ==
    { r \in table : r.id # ownId /\ data[col] # <<>> /\ r[col] = data[col] }

\* the errors the store may answer a save with: a violated unique constraint
\* (either one when both are violated), or a failure unrelated to uniqueness
SaveErrorsOf(table, data, ownId) ==
    (IF Collisions(table, data, ownId, "sku") # {} THEN {SkuViolationText} ELSE {})
        \cup (IF Collisions(table, data, ownId, "barcode") # {}
              THEN {BarcodeViolationText} ELSE {})
        \cup OtherSaveErrors

RowOf(id, data) ==
    [id |-> id, name |-> data.name, style_number |-> data.style_number,
     sku |-> data.sku, barcode |-> data.barcode]

\* POST products / PATCH products?id=eq.<id>: the table after the write.
\* Rows are never deleted, so the next id is the row count plus one.
Written(table, request) ==
    IF request.isEditing
    THEN { IF r.id = request.editingId THEN RowOf(r.id, request.formData) ELSE r :
             r \in table }
    ELSE table \cup { RowOf(Cardinality(table) + 1, request.formData) }

\* Prefer: return=representation: the rows the write touched
SavedRows(table, request) ==
    IF request.isEditing
    THEN QueryById(Written(table, request), request.editingId)
    ELSE <<RowOf(Cardinality(table) + 1, request.formData)>>

-----------------------------------------------------------------------------
(* The application state after initApp, and the values the user, the scanner,
   the extraction endpoint and the store feed it *)

\* the values typed into the barcode field and the strings the decoder reports
Code3 == <<"1", "2", "3">>

TypedBarcodes == { Code3, Code12 }

TypedStyles == { <<"A">> }

DecodedStrings == { Code3, Code12 }

\* the records the extraction endpoint reads off an image
AppData ==
    { [name |-> "X", retail_price |-> {10}, notes |-> Absent,
       style_number |-> <<"B">>, barcode |-> Code13],
      [name |-> "Y", retail_price |-> NoNumber, notes |-> "dented"] }

AppResults ==
    { [success |-> TRUE, error |-> <<>>, data |-> d] : d \in AppData }
    \cup { [success |-> FALSE, error |-> RateLimitText, data |-> EmptyData] }

\* the store when the page is opened: empty, or holding one product
InitialTables ==
    { {}, { [id |-> 1, name |-> "X", style_number |-> <<"A">>, sku |-> <<"A">>,
             barcode |-> Code12] } }

NothingPending ==
    [lookups |-> {}, extractions |-> {}, saves |-> {}, saveResponses |-> {},
     editFetches |-> {}, saveCount |-> 0]

\* the elements of dom.js as the page loads them; barcodeDupWarning is the id
\* the warning names, 0 when it is hidden
InitialDom ==
    [barcodeSource |-> "", saveBtnDisabled |-> TRUE, processBtnDisabled |-> FALSE,
     rescanBtnDisabled |-> TRUE, barcodeDupWarning |-> 0, successModal |-> FALSE,
     duplicateModal |-> FALSE, duplicateMessage |-> <<>>, status |-> NoStatus]

\* state.js: the state object (0, <<>> and NoProduct stand for null)
InitialState ==
    [currentImages |-> <<>>, extractedData |-> NoData, lastDetectedCode |-> <<>>,
     editingId |-> 0, lastSavedProduct |-> NoProduct, duplicateProductId |-> 0]

\* the decoder library not yet loaded, and loaded with nothing registered
QuaggaAbsent == [loaded |-> FALSE, waiting |-> 0, callbacks |-> 0]

QuaggaReady == [loaded |-> TRUE, waiting |-> 0, callbacks |-> 0]

NoTimers == [debounce |-> TimerOff, successModal |-> FALSE, duplicateModal |-> FALSE]

AppIdle ==
    /\ form = EmptyForm
    /\ dom = InitialDom
    /\ state = InitialState
    /\ detectionHandler = FALSE
    /\ timers = NoTimers
    /\ pending = NothingPending
    /\ products = {}
    /\ quagga = QuaggaReady
    /\ emitted = <<>>

\* the page as it is opened, before the decoder library is asked for
AppOpened ==
    /\ form = EmptyForm
    /\ dom = InitialDom
    /\ state = InitialState
    /\ detectionHandler = FALSE
    /\ timers = NoTimers
    /\ pending = NothingPending
    /\ products \in InitialTables
    /\ emitted = <<>>

\* the page with the decoder library loaded
AppInit == AppOpened /\ quagga = QuaggaReady

ScannerInit == AppOpened /\ quagga = QuaggaAbsent

\* the application after SelectImage, ProcessClick and an ExtractComplete
\* that read record d off the image
AfterFirstExtraction ==
    /\ \E d \in AppData :
          /\ form = populateForm(EmptyForm, "", d)
          /\ state = [InitialState EXCEPT !.currentImages = <<"image">>,
                                          !.extractedData = d]
          /\ timers = [NoTimers EXCEPT !.debounce = BarcodeInputEvent(Str(d, "barcode"))]
    /\ dom = [InitialDom EXCEPT !.saveBtnDisabled = FALSE, !.rescanBtnDisabled = FALSE,
                 !.status = [text |-> "Product detected", detail |-> <<>>]]
    /\ detectionHandler = FALSE
    /\ pending = NothingPending
    /\ products \in InitialTables
    /\ quagga = QuaggaReady
    /\ emitted = <<>>

\* the page with one to MaxImages images chosen, before anything was extracted
\* or after an extraction that read record d
ExtractInit ==
    /\ \E n \in 1..MaxImages :
          LET chosen == [i \in 1..n |-> "image"]
          IN  \/ /\ form = EmptyForm
                 /\ state = [InitialState EXCEPT !.currentImages = chosen]
                 /\ timers = NoTimers
                 /\ dom = [InitialDom EXCEPT !.status =
                              [text |-> "image(s) selected", detail |-> <<>>]]
              \/ \E d \in AppData :
                    /\ form = populateForm(EmptyForm, "", d)
                    /\ state = [InitialState EXCEPT !.currentImages = chosen,
                                                    !.extractedData = d]
                    /\ timers = [NoTimers EXCEPT !.debounce =
                                    BarcodeInputEvent(Str(d, "barcode"))]
                    /\ dom = [InitialDom EXCEPT !.saveBtnDisabled = FALSE,
                                 !.rescanBtnDisabled = FALSE,
                                 !.status = [text |-> "Product detected", detail |-> <<>>]]
    /\ detectionHandler = FALSE
    /\ pending = NothingPending
    /\ products = {}
    /\ quagga = QuaggaReady
    /\ emitted = <<>>

(* The form's input listeners *)

\* the user types a style number: the SKU is generated anew
TypeStyle ==
    /\ \E v \in TypedStyles :
          /\ v # form.style_number
          /\ form' = [form EXCEPT !.style_number = v,
                        !.sku = generateSKUFromForm([form EXCEPT !.style_number = v])]
    /\ UNCHANGED <<dom, state, detectionHandler, timers, pending, products, quagga>>
    /\ emitted' = <<>>

\* the user changes the barcode field: the debounce timer is (re)started
TypeBarcode ==
    /\ \E v \in TypedBarcodes :
          /\ v # form.barcode
          /\ form' = [form EXCEPT !.barcode = v]
          /\ timers' = [timers EXCEPT !.debounce = BarcodeInputEvent(v)]
    /\ UNCHANGED <<dom, state, detectionHandler, pending, products, quagga>>
    /\ emitted' = <<>>

\* checkBarcodeExists(barcode) up to its fetch, on the current dom and pending
CheckBarcodeExists(barcode, d, p) ==
    LET step == CheckBarcodeStep(state.editingId, barcode)
    IN  /\ dom' = IF step = "clear" THEN [d EXCEPT !.barcodeDupWarning = 0] ELSE d
        /\ pending' = IF step = "send" THEN [p EXCEPT !.lookups = @ \cup {barcode}] ELSE p

\* 500 ms after the last input event the debounced function runs
DebounceFire ==
    /\ timers.debounce.armed
    /\ timers' = [timers EXCEPT !.debounce = TimerOff]
    /\ IF DebouncedStep(state.editingId, timers.debounce.value) = "skip"
       THEN UNCHANGED <<dom, pending>>
       ELSE CheckBarcodeExists(timers.debounce.value, dom, pending)
    /\ UNCHANGED <<form, state, detectionHandler, products, quagga>>
    /\ emitted' = <<>>

\* the store answers a duplicate lookup and checkBarcodeExists resumes
LookupResponse ==
    /\ \E barcode \in pending.lookups, outcome \in LookupOutcomes :
          LET data == QueryByBarcode(products, barcode)
          IN  /\ pending' = [pending EXCEPT !.lookups = @ \ {barcode}]
              /\ IF outcome = "rejected"
                 THEN UNCHANGED <<dom, state>>
                 ELSE IF outcome = "rows" /\ Len(data) > 0
                 THEN /\ state' = [state EXCEPT !.duplicateProductId = data[1].id]
                      /\ dom' = [dom EXCEPT !.barcodeDupWarning = data[1].id]
                 ELSE /\ state' = [state EXCEPT !.duplicateProductId = 0]
                      /\ dom' = [dom EXCEPT !.barcodeDupWarning = 0]
    /\ UNCHANGED <<form, detectionHandler, timers, products, quagga>>
    /\ emitted' = <<>>

(* barcode-scanner.js *)

\* the start of the earlier revision: a callback is registered and none is
\* ever taken off
ScannerStarts_NoOff(q) ==
    /\ state' = [state EXCEPT !.lastDetectedCode = <<>>]
    /\ detectionHandler' = TRUE
    /\ quagga' = [q EXCEPT !.callbacks = @ + 1]

\* lines 42-88, run without interruption once the library is there: the buffer
\* is emptied, the handler registered before is taken off the decoder and a
\* new one is registered
ScannerStarts(q) ==
    /\ state' = [state EXCEPT !.lastDetectedCode = <<>>]
    /\ detectionHandler' = TRUE
    /\ quagga' = [q EXCEPT !.callbacks = (IF detectionHandler THEN @ - 1 ELSE @) + 1]

\* the Scan button: with the library loaded the scanner starts at once,
\* otherwise a script element is added and the call waits for it
StartBarcodeScanner ==
    /\ IF quagga.loaded
       THEN ScannerStarts(quagga)
       ELSE /\ quagga.waiting < MaxStarts
            /\ quagga' = [quagga EXCEPT !.waiting = @ + 1]
            /\ UNCHANGED <<state, detectionHandler>>
    /\ emitted' = <<>>
    /\ UNCHANGED <<form, dom, timers, pending, products>>

\* the script of a waiting start has loaded: that start goes on
QuaggaLoaded ==
    /\ quagga.waiting > 0
    /\ ScannerStarts([quagga EXCEPT !.loaded = TRUE, !.waiting = @ - 1])
    /\ emitted' = <<>>
    /\ UNCHANGED <<form, dom, timers, pending, products>>

\* the script of a waiting start failed to load: that start gives up
QuaggaLoadError ==
    /\ quagga.waiting > 0
    /\ quagga' = [quagga EXCEPT !.waiting = @ - 1]
    /\ dom' = [dom EXCEPT !.status =
                  [text |-> "Failed to load barcode scanner library", detail |-> <<>>]]
    /\ emitted' = <<>>
    /\ UNCHANGED <<form, state, detectionHandler, timers, pending, products>>

\* a handler that buffers whatever string is decoded
DetectedCode_AnyLength(code) ==
    /\ quagga.callbacks > 0
    /\ state' = [state EXCEPT !.lastDetectedCode = code]
    /\ emitted' = <<>>
    /\ UNCHANGED <<form, dom, detectionHandler, timers, pending, products, quagga>>

\* the decoder reports the string `code` to the callbacks registered with it
DetectedCode(code) ==
    /\ quagga.callbacks > 0
    /\ state' = IF Len(code) \in {12, 13}
                THEN [state EXCEPT !.lastDetectedCode = code] ELSE state
    /\ emitted' = <<>>
    /\ UNCHANGED <<form, dom, detectionHandler, timers, pending, products, quagga>>

Detected == \E code \in DecodedStrings : DetectedCode(code)

\* the same with a second accepted code among the strings decoded
DetectedAny == \E code \in DecodedStrings \cup {Code13} : DetectedCode(code)

\* the handler is taken off the decoder and forgotten, the buffer emptied
ScannerStops ==
    /\ detectionHandler' = FALSE
    /\ quagga' = [quagga EXCEPT !.callbacks = IF detectionHandler THEN @ - 1 ELSE @]
    /\ state' = [state EXCEPT !.lastDetectedCode = <<>>]

StopBarcodeScanner ==
    /\ ScannerStops
    /\ emitted' = <<>>
    /\ UNCHANGED <<form, dom, timers, pending, products>>

\* with a code buffered: the field is written and marked, the barcode:scanned
\* listener runs checkBarcodeExists, and the scanner is stopped
CaptureBarcodeAndStop ==
    /\ IF state.lastDetectedCode # <<>>
       THEN /\ form' = [form EXCEPT !.barcode = state.lastDetectedCode]
            /\ emitted' = <<[event |-> "barcode:scanned", code |-> state.lastDetectedCode]>>
            /\ CheckBarcodeExists(state.lastDetectedCode,
                                  [dom EXCEPT !.barcodeSource = "scanned"], pending)
            /\ ScannerStops
       ELSE /\ emitted' = <<>>
            /\ UNCHANGED <<form, dom, pending, detectionHandler, state, quagga>>
    /\ UNCHANGED <<timers, products>>

(* image-handler.js and the Process and Rescan buttons *)

\* handleImageSelection for one chosen file
SelectImage ==
    /\ Len(state.currentImages) < MaxSelected
    /\ state' = [state EXCEPT !.currentImages = Append(@, "image")]
    /\ dom' = [dom EXCEPT !.status = [text |-> "image(s) selected", detail |-> <<>>]]
    /\ emitted' = <<[event |-> "images:selected", count |-> Len(state'.currentImages)]>>
    /\ UNCHANGED <<form, detectionHandler, timers, pending, products, quagga>>

ClearImages ==
    /\ state' = [state EXCEPT !.currentImages = <<>>]
    /\ dom' = [dom EXCEPT !.status = [text |-> "Images cleared", detail |-> <<>>]]
    /\ UNCHANGED <<form, detectionHandler, timers, pending, products, quagga>>
    /\ emitted' = <<>>

ProcessClick ==
    /\ ~dom.processBtnDisabled
    /\ IF Len(state.currentImages) = 0
       THEN /\ dom' = [dom EXCEPT !.status =
                          [text |-> "Please select images first", detail |-> <<>>]]
            /\ UNCHANGED pending
       ELSE /\ dom' = [dom EXCEPT !.processBtnDisabled = TRUE,
                          !.status = [text |-> "Processing image(s) with AI...", detail |-> <<>>]]
            /\ pending' = [pending EXCEPT !.extractions = @ \cup
                             {[button |-> "process", images |-> Len(state.currentImages)]}]
    /\ UNCHANGED <<form, state, detectionHandler, timers, products, quagga>>
    /\ emitted' = <<>>

RescanClick ==
    /\ ~dom.rescanBtnDisabled
    /\ IF Len(state.currentImages) = 0
       THEN UNCHANGED <<dom, pending>>
       ELSE /\ dom' = [dom EXCEPT !.rescanBtnDisabled = TRUE,
                          !.status = [text |-> "Rescanning images...", detail |-> <<>>]]
            /\ pending' = [pending EXCEPT !.extractions = @ \cup
                             {[button |-> "rescan", images |-> Len(state.currentImages)]}]
    /\ UNCHANGED <<form, state, detectionHandler, timers, products, quagga>>
    /\ emitted' = <<>>

\* an extraction that applies what it had merged when a later image fails
ExtractComplete_PartialMerge ==
    /\ \E e \in pending.extractions :
       \E rs \in SeqsOfLen(AppResults, e.images) :
          LET merge == MergeAll(rs)
              done == [dom EXCEPT !.processBtnDisabled = (e.button # "process") /\ @,
                                  !.rescanBtnDisabled = (e.button # "rescan") /\ @]
          IN  /\ pending' = [pending EXCEPT !.extractions = @ \ {e}]
              /\ IF merge.thrown = ""
                 THEN /\ state' = [state EXCEPT !.extractedData = merge.data]
                      /\ form' = populateForm(form, dom.barcodeSource, merge.data)
                      /\ timers' = IF dom.barcodeSource # "scanned"
                                   THEN [timers EXCEPT !.debounce =
                                           BarcodeInputEvent(Str(merge.data, "barcode"))]
                                   ELSE timers
                      /\ dom' = [done EXCEPT !.saveBtnDisabled = FALSE,
                                    !.rescanBtnDisabled = FALSE,
                                    !.status = [text |-> "Product detected", detail |-> <<>>]]
                      /\ emitted' = <<[event |-> "extraction:complete",
                                       data |-> merge.data]>>
                 ELSE /\ dom' = [done EXCEPT !.status =
                                    [text |-> "Error: " \o merge.thrown, detail |-> <<>>]]
                      /\ emitted' = <<>>
                      /\ state' = [state EXCEPT !.extractedData = merge.data]
                      /\ form' = populateForm(form, dom.barcodeSource, merge.data)
                      /\ UNCHANGED timers
    /\ UNCHANGED <<detectionHandler, products, quagga>>

\* extractProductData resumes with the responses of all its images, and the
\* click handler that awaited it re-enables its button
ExtractComplete ==
    /\ \E e \in pending.extractions :
       \E rs \in SeqsOfLen(AppResults, e.images) :
          LET merge == MergeAll(rs)
              done == [dom EXCEPT !.processBtnDisabled = (e.button # "process") /\ @,
                                  !.rescanBtnDisabled = (e.button # "rescan") /\ @]
          IN  /\ pending' = [pending EXCEPT !.extractions = @ \ {e}]
              /\ IF merge.thrown = ""
                 THEN /\ state' = [state EXCEPT !.extractedData = merge.data]
                      /\ form' = populateForm(form, dom.barcodeSource, merge.data)
                      /\ timers' = IF dom.barcodeSource # "scanned"
                                   THEN [timers EXCEPT !.debounce =
                                           BarcodeInputEvent(Str(merge.data, "barcode"))]
                                   ELSE timers
                      /\ dom' = [done EXCEPT !.saveBtnDisabled = FALSE,
                                    !.rescanBtnDisabled = FALSE,
                                    !.status = [text |-> "Product detected", detail |-> <<>>]]
                      /\ emitted' = <<[event |-> "extraction:complete",
                                       data |-> merge.data]>>
                 ELSE /\ dom' = [done EXCEPT !.status =
                                    [text |-> "Error: " \o merge.thrown, detail |-> <<>>]]
                      /\ emitted' = <<>>
                      /\ UNCHANGED <<state, form, timers>>
    /\ UNCHANGED <<detectionHandler, products, quagga>>

\* what a request or the parsing of its response throws (lines 38-70): the
\* network failing, the 30-second timeout, a status that is not OK, an empty
\* body, a body that is not JSON
TransportErrors ==
    { "Failed to fetch", "The operation was aborted.",
      "Server error 500. Please try again.", "Empty response from server.",
      "Invalid response. Please try again in a moment." }

\* extractProductData resumes with one of its requests or responses rejected
ExtractRejected ==
    /\ \E e \in pending.extractions, message \in TransportErrors :
          /\ pending' = [pending EXCEPT !.extractions = @ \ {e}]
          /\ dom' = [dom EXCEPT !.processBtnDisabled = (e.button # "process") /\ @,
                                !.rescanBtnDisabled = (e.button # "rescan") /\ @,
                                !.status = [text |-> "Error: " \o message, detail |-> <<>>]]
    /\ emitted' = <<>>
    /\ UNCHANGED <<form, state, detectionHandler, timers, products, quagga>>

(* database.js: saveProduct, and the store carrying the save out *)

SaveClick ==
    /\ ~dom.saveBtnDisabled
    /\ LET formData == collectFormData(form)
       IN  IF formData.name = ""
           THEN /\ dom' = [dom EXCEPT !.status =
                              [text |-> "Product name is required!", detail |-> <<>>]]
                /\ UNCHANGED pending
           ELSE /\ pending.saveCount < MaxSaves
                /\ dom' = [dom EXCEPT !.saveBtnDisabled = TRUE,
                              !.status = [text |-> IF state.editingId # 0 THEN "Updating..."
                                                   ELSE "Saving...", detail |-> <<>>]]
                /\ pending' = [pending EXCEPT !.saveCount = @ + 1, !.saves = @ \cup
                                 {[formData |-> formData, isEditing |-> state.editingId # 0,
                                   editingId |-> state.editingId]}]
    /\ UNCHANGED <<form, state, detectionHandler, timers, products, quagga>>
    /\ emitted' = <<>>

\* the store writes the row and answers with it, or answers with an error
StoreSave ==
    /\ \E request \in pending.saves :
          LET ownId == IF request.isEditing THEN request.editingId ELSE 0
          IN  \/ /\ SaveErrorsOf(products, request.formData, ownId) = OtherSaveErrors
                 /\ request.isEditing \/ Cardinality(products) < MaxRows
                 /\ products' = Written(products, request)
                 /\ pending' = [pending EXCEPT !.saves = @ \ {request},
                                  !.saveResponses = @ \cup
                                     {[request |-> request, error |-> <<>>,
                                       savedData |-> SavedRows(products, request)]}]
              \/ /\ \E error \in SaveErrorsOf(products, request.formData, ownId) :
                       pending' = [pending EXCEPT !.saves = @ \ {request},
                                     !.saveResponses = @ \cup
                                        {[request |-> request, error |-> error,
                                          savedData |-> <<>>]}]
                 /\ UNCHANGED products
    /\ UNCHANGED <<form, dom, state, detectionHandler, timers, quagga>>
    /\ emitted' = <<>>

\* a saveProduct that leaves the chosen images and the extracted record in
\* place after a save
SaveResponse_KeepsImages ==
    /\ \E response \in pending.saveResponses :
          /\ pending' = [pending EXCEPT !.saveResponses = @ \ {response}]
          /\ IF response.error = <<>>
             THEN /\ form' = EmptyForm
                  /\ IF response.request.isEditing
                     THEN /\ state' = [state EXCEPT !.editingId = 0,
                                         !.lastSavedProduct = NoProduct]
                          /\ UNCHANGED timers
                     ELSE /\ state' = [state EXCEPT
                                         !.lastSavedProduct = response.savedData[1]]
                          /\ timers' = [timers EXCEPT !.successModal = TRUE]
                  /\ dom' = [dom EXCEPT !.barcodeSource = "", !.barcodeDupWarning = 0,
                                !.saveBtnDisabled = TRUE,
                                !.status = [text |-> IF response.request.isEditing
                                                     THEN "Product updated!"
                                                     ELSE "Product saved successfully!",
                                            detail |-> <<>>]]
                  /\ emitted' = <<[event |-> "product:saved",
                                   product |-> response.savedData[1]]>>
             ELSE /\ IF IsDuplicateError(response.error)
                     THEN /\ dom' = [dom EXCEPT !.saveBtnDisabled = FALSE,
                                        !.duplicateMessage = DuplicateMessage(response.error)]
                          /\ timers' = [timers EXCEPT !.duplicateModal = TRUE]
                     ELSE /\ dom' = [dom EXCEPT !.saveBtnDisabled = FALSE,
                                        !.status = SaveErrorStatus(response.error)]
                          /\ UNCHANGED <<timers>>
                  /\ emitted' = <<>>
                  /\ UNCHANGED <<form, state>>
    /\ UNCHANGED <<detectionHandler, products, quagga>>

\* saveProduct resumes with the store's answer
SaveResponse ==
    /\ \E response \in pending.saveResponses :
          /\ pending' = [pending EXCEPT !.saveResponses = @ \ {response}]
          /\ IF response.error = <<>>
             THEN /\ form' = EmptyForm
                  /\ IF response.request.isEditing
                     THEN /\ state' = [state EXCEPT !.editingId = 0,
                                         !.lastSavedProduct = NoProduct,
                                         !.currentImages = <<>>, !.extractedData = NoData]
                          /\ UNCHANGED timers
                     ELSE /\ state' = [state EXCEPT
                                         !.lastSavedProduct = response.savedData[1],
                                         !.currentImages = <<>>, !.extractedData = NoData]
                          /\ timers' = [timers EXCEPT !.successModal = TRUE]
                  /\ dom' = [dom EXCEPT !.barcodeSource = "", !.barcodeDupWarning = 0,
                                !.saveBtnDisabled = TRUE,
                                !.status = [text |-> IF response.request.isEditing
                                                     THEN "Product updated!"
                                                     ELSE "Product saved successfully!",
                                            detail |-> <<>>]]
                  /\ emitted' = <<[event |-> "product:saved",
                                   product |-> response.savedData[1]]>>
             ELSE /\ IF IsDuplicateError(response.error)
                     THEN /\ dom' = [dom EXCEPT !.saveBtnDisabled = FALSE,
                                        !.duplicateMessage = DuplicateMessage(response.error)]
                          /\ timers' = [timers EXCEPT !.duplicateModal = TRUE]
                     ELSE /\ dom' = [dom EXCEPT !.saveBtnDisabled = FALSE,
                                        !.status = SaveErrorStatus(response.error)]
                          /\ UNCHANGED <<timers>>
                  /\ emitted' = <<>>
                  /\ UNCHANGED <<form, state>>
    /\ UNCHANGED <<detectionHandler, products, quagga>>

(* The dialogs and the edit mode *)

\* 500 ms after a created product was saved the success dialog opens
SuccessModalTimer ==
    /\ timers.successModal
    /\ timers' = [timers EXCEPT !.successModal = FALSE]
    /\ dom' = [dom EXCEPT !.successModal = TRUE]
    /\ UNCHANGED <<form, state, detectionHandler, pending, products, quagga>>
    /\ emitted' = <<>>

\* 500 ms after a duplicate error the duplicate dialog opens
DuplicateModalTimer ==
    /\ timers.duplicateModal
    /\ timers' = [timers EXCEPT !.duplicateModal = FALSE]
    /\ dom' = [dom EXCEPT !.duplicateModal = TRUE]
    /\ UNCHANGED <<form, state, detectionHandler, pending, products, quagga>>
    /\ emitted' = <<>>

\* ui-utils.js: closeModal
CloseModal ==
    /\ dom.successModal
    /\ dom' = [dom EXCEPT !.successModal = FALSE]
    /\ UNCHANGED <<form, state, detectionHandler, timers, pending, products, quagga>>
    /\ emitted' = <<>>

\* window.editLastSaved, once product is known to be set: the record is
\* loaded into the form and edit mode is entered
LoadForEdit(product) ==
    LET populated == populateForm(form, dom.barcodeSource, product)
    IN  /\ form' = [populated EXCEPT !.barcode = product.barcode,
                       !.sku = IF product.sku # <<>> THEN product.sku ELSE @]
        /\ timers' = IF dom.barcodeSource # "scanned"
                     THEN [timers EXCEPT !.debounce = BarcodeInputEvent(product.barcode)]
                     ELSE timers
        /\ dom' = [dom EXCEPT !.successModal = FALSE, !.barcodeSource = "",
                      !.saveBtnDisabled = FALSE,
                      !.status = IF populated.barcode # <<>>
                                    /\ Len(populated.barcode) \notin {12, 13}
                                 THEN [text |-> "Warning: Barcode has "
                                                  \o ToString(Len(populated.barcode))
                                                  \o " digits (should be 12 or 13)",
                                       detail |-> <<>>]
                                 ELSE @]
        /\ state' = [state EXCEPT !.lastSavedProduct = product, !.editingId = product.id]

\* the success dialog's Edit button
EditLastSaved ==
    /\ dom.successModal
    /\ IF state.lastSavedProduct = NoProduct
       THEN UNCHANGED <<form, timers, dom, state>>
       ELSE LoadForEdit(state.lastSavedProduct)
    /\ UNCHANGED <<detectionHandler, pending, products, quagga>>
    /\ emitted' = <<>>

\* window.cancelEdit, the button of the edit-mode indicator
CancelEdit ==
    /\ state.editingId # 0
    /\ state' = [state EXCEPT !.editingId = 0, !.lastSavedProduct = NoProduct]
    /\ form' = EmptyForm
    /\ dom' = [dom EXCEPT !.barcodeSource = "", !.saveBtnDisabled = TRUE]
    /\ UNCHANGED <<detectionHandler, timers, pending, products, quagga>>
    /\ emitted' = <<>>

\* ui-utils.js: closeDuplicateModal, the dialog's dismiss button
CloseDuplicateModal ==
    /\ dom.duplicateModal
    /\ dom' = [dom EXCEPT !.duplicateModal = FALSE, !.saveBtnDisabled = TRUE]
    /\ form' = EmptyForm
    /\ state' = [state EXCEPT !.currentImages = <<>>, !.extractedData = NoData]
    /\ UNCHANGED <<detectionHandler, timers, pending, products, quagga>>
    /\ emitted' = <<>>

\* window.editDuplicateProduct up to its await: the dialog is closed (and the
\* form reset), then the keys are read and the lookups are fired
EditDuplicateProduct ==
    /\ dom.duplicateModal
    /\ dom' = [dom EXCEPT !.duplicateModal = FALSE, !.saveBtnDisabled = TRUE,
                  !.status = [text |-> "Loading existing product...", detail |-> <<>>]]
    /\ form' = EmptyForm
    /\ state' = [state EXCEPT !.currentImages = <<>>, !.extractedData = NoData]
    /\ pending' = [pending EXCEPT !.editFetches = @ \cup
                     {[productId |-> state.duplicateProductId,
                       barcode |-> Trim(form'.barcode), sku |-> Trim(form'.sku)]}]
    /\ UNCHANGED <<detectionHandler, timers, products, quagga>>
    /\ emitted' = <<>>

\* fetchProductForEdit's lookups are answered and editDuplicateProduct resumes
EditFetchResponse ==
    /\ \E q \in pending.editFetches :
       \E outcome \in [{"id", "barcode", "sku"} -> LookupOutcomes] :
          LET product == fetchProductForEdit(products, q.productId, q.barcode, q.sku, outcome)
          IN  /\ \A k \in {"id", "barcode", "sku"} :
                    k \notin Issued(q.productId, q.barcode, q.sku) => outcome[k] = "rows"
              /\ pending' = [pending EXCEPT !.editFetches = @ \ {q}]
              /\ IF product # NoProduct
                 THEN LoadForEdit(product)
                 ELSE /\ dom' = [dom EXCEPT !.status =
                                    [text |-> "Could not find existing product",
                                     detail |-> <<>>]]
                      /\ UNCHANGED <<form, timers, state>>
    /\ UNCHANGED <<detectionHandler, products, quagga>>
    /\ emitted' = <<>>

-----------------------------------------------------------------------------
(* auth.js and startApp: the session and the page's startup *)

\* The clock counts minutes. An access token is the minute at which the auth
\* service stops accepting it; a stored refresh token is TRUE.
TokenLifetime == 60

\* the 60000 ms a cached session must still have
ExpiryMargin == 1

\* the period of the background check: 55 * 60 * 1000 ms
RefreshEvery == 55

NoToken == -1

\* what the auth service answers at minute `now`
NewSession(now) ==
    [access_token |-> now + TokenLifetime, refresh_token |-> TRUE,
     expires_in |-> TokenLifetime]

\* localStorage holds no session (<<>>) or one (a sequence of one record)
storeSession(session, now) ==
    << [access_token |-> session.access_token,
        refresh_token |-> session.refresh_token,
        expires_at |-> now + session.expires_in] >>

\* a stored session that counts as valid although no time is left beyond the
\* margin
CachedSessionUsable_NoMargin(stored, now) ==
    stored # <<>> /\ stored[1].expires_at > now

\* line 82
CachedSessionUsable(stored, now) ==
    stored # <<>> /\ stored[1].expires_at > now + ExpiryMargin

\* line 87
HasRefreshToken(stored) == stored # <<>> /\ stored[1].refresh_token

\* the sessions an earlier visit may have left in localStorage at minute 0
StoredExpiries == {0, 1, 2, 30}

StoredSessions ==
    { <<>> } \cup
    { << [access_token |-> e, refresh_token |-> r, expires_at |-> e] >> :
         e \in StoredExpiries, r \in BOOLEAN }

AuthFailedMessage == "Authentication failed. Please reload the page."

NoCall == [at |-> "idle", caller |-> "none"]

NoResult == [ended |-> "none", access_token |-> NoToken, requests |-> 0]

PageLoading ==
    [phase |-> "loading", accessToken |-> NoToken, listeners |-> FALSE,
     nextRefresh |-> 0, message |-> ""]

\* the caller goes on with the token ensureAuthenticated returned: startApp
\* keeps it, runs initApp and starts the interval; the interval keeps it
Returned(caller, token, st) ==
    startup' = IF caller = "startApp"
               THEN [st EXCEPT !.phase = "running", !.accessToken = token,
                               !.listeners = TRUE, !.nextRefresh = clock + RefreshEvery]
               ELSE [st EXCEPT !.accessToken = token]

\* a startApp that goes on to initApp although ensureAuthenticated threw
Threw_RunsAnyway(caller, st) ==
    startup' = IF caller = "startApp"
               THEN [st EXCEPT !.phase = "running", !.listeners = TRUE,
                               !.nextRefresh = clock + RefreshEvery]
               ELSE st

\* the caller catches what ensureAuthenticated threw: startApp shows the
\* message, the interval only logs
Threw(caller, st) ==
    startup' = IF caller = "startApp"
               THEN [st EXCEPT !.phase = "halted", !.message = AuthFailedMessage]
               ELSE st

\* ensureAuthenticated up to its first request, called by `caller`
EnsureAuthenticated(caller, st) ==
    IF CachedSessionUsable(nbSession, clock)
    THEN /\ authResult' = [ended |-> "returned",
                           access_token |-> nbSession[1].access_token, requests |-> 0]
         /\ Returned(caller, nbSession[1].access_token, st)
         /\ UNCHANGED <<nbSession, authPc>>
    ELSE /\ authPc' = [at |-> IF HasRefreshToken(nbSession) THEN "refresh" ELSE "signIn",
                       caller |-> caller]
         /\ authResult' = [NoResult EXCEPT !.requests = 1]
         /\ startup' = st
         /\ UNCHANGED nbSession

\* the page is opened
StartApp ==
    /\ startup.phase = "loading"
    /\ EnsureAuthenticated("startApp", [startup EXCEPT !.phase = "authenticating"])
    /\ UNCHANGED clock

\* the interval started by startApp is due
IntervalDue == startup.nextRefresh # 0 /\ startup.nextRefresh = clock

IntervalFires ==
    /\ IntervalDue
    /\ authPc.at = "idle"
    /\ EnsureAuthenticated("interval", [startup EXCEPT !.nextRefresh = clock + RefreshEvery])
    /\ UNCHANGED clock

\* the service answers a request with a new session: it is stored and returned
SessionGranted ==
    /\ nbSession' = storeSession(NewSession(clock), clock)
    /\ authResult' = [authResult EXCEPT !.ended = "returned",
                                        !.access_token = NewSession(clock).access_token]
    /\ Returned(authPc.caller, NewSession(clock).access_token, startup)
    /\ authPc' = NoCall
    /\ UNCHANGED clock

RefreshOk == authPc.at = "refresh" /\ SessionGranted

\* the refresh request fails: the stored session is removed and signIn is tried
RefreshFails ==
    /\ authPc.at = "refresh"
    /\ nbSession' = <<>>
    /\ authPc' = [authPc EXCEPT !.at = "signIn"]
    /\ authResult' = [authResult EXCEPT !.requests = @ + 1]
    /\ UNCHANGED <<clock, startup>>

SignInOk == authPc.at = "signIn" /\ SessionGranted

\* the sign-in request fails: ensureAuthenticated throws
SignInFails ==
    /\ authPc.at = "signIn"
    /\ authPc' = NoCall
    /\ authResult' = [authResult EXCEPT !.ended = "threw"]
    /\ Threw(authPc.caller, startup)
    /\ UNCHANGED <<clock, nbSession>>

\* a minute passes; requests are answered within the minute and the interval
\* fires on time
Tick ==
    /\ startup.phase # "loading"
    /\ authPc.at = "idle"
    /\ ~IntervalDue
    /\ clock < MaxClock
    /\ clock' = clock + 1
    /\ UNCHANGED <<nbSession, authPc, authResult, startup>>

\* the page running on a session granted at minute 0
AuthIdle ==
    /\ clock = 0
    /\ nbSession = storeSession(NewSession(0), 0)
    /\ authPc = NoCall
    /\ authResult = NoResult
    /\ startup = [PageLoading EXCEPT !.phase = "running",
                     !.accessToken = NewSession(0).access_token,
                     !.listeners = TRUE, !.nextRefresh = RefreshEvery]

\* the page about to be opened, with what an earlier visit left stored
AuthInit ==
    /\ clock = 0
    /\ nbSession \in StoredSessions
    /\ authPc = NoCall
    /\ authResult = NoResult
    /\ startup = PageLoading

-----------------------------------------------------------------------------
(* database.js: exportData *)

\* A stored record is its id. The page size stands for the 500 of the code.
PAGE_SIZE == 2

RECURSIVE InIdOrder(_)
InIdOrder(ids) ==
    IF ids = {} THEN <<>>
    ELSE LET least == CHOOSE i \in ids : \A j \in ids : i <= j
         IN  <<least>> \o InIdOrder(ids \ {least})

\* GET products?select=*&order=id&offset=<offset>&limit=<limit>
PageOf(store, offset, limit) ==
    LET all == InIdOrder(store)
        last == IF offset + limit < Len(all) THEN offset + limit ELSE Len(all)
    IN  IF offset >= Len(all) THEN <<>> ELSE SubSeq(all, offset + 1, last)

NoExport ==
    [pc |-> "idle", page |-> 0, data |-> <<>>, hasMore |-> TRUE, file |-> <<>>,
     status |-> ""]

\* the Export button: the loop sends its first request
ExportData ==
    /\ export.pc = "idle"
    /\ export' = [NoExport EXCEPT !.pc = "fetching", !.status = "Fetching products..."]
    /\ UNCHANGED exportStore

\* lines 265-270 and, when the loop ends, 273-339: the batch is appended and
\* the loop goes on after a full page; the file holds a row for each record
AfterPage(batch) ==
    LET data == export.data \o batch
        hasMore == Len(batch) = PAGE_SIZE
    IN  IF hasMore
        THEN [export EXCEPT !.data = data, !.hasMore = TRUE, !.page = @ + 1,
                            !.status = "Fetching products... (loaded)"]
        ELSE IF Len(data) = 0
        THEN [export EXCEPT !.data = data, !.hasMore = FALSE, !.page = @ + 1,
                            !.pc = "empty", !.status = "No products to export"]
        ELSE [export EXCEPT !.data = data, !.hasMore = FALSE, !.page = @ + 1,
                            !.pc = "done", !.file = data,
                            !.status = "Exported products to CSV"]

\* a loop that asks for the page number as the offset
ExportPage_OffsetIsPage ==
    /\ export.pc = "fetching"
    /\ export' = AfterPage(PageOf(exportStore, export.page, PAGE_SIZE))
    /\ UNCHANGED exportStore

\* lines 252-265: the page at offset page * PAGE_SIZE arrives
ExportPage ==
    /\ export.pc = "fetching"
    /\ export' = AfterPage(PageOf(exportStore, export.page * PAGE_SIZE, PAGE_SIZE))
    /\ UNCHANGED exportStore

\* the request for a page fails (no answer, or a status that is not OK)
ExportPageFails ==
    /\ export.pc = "fetching"
    /\ export' = [export EXCEPT !.pc = "failed", !.status = "Export failed"]
    /\ UNCHANGED exportStore

ExportIdle ==
    /\ exportStore = {}
    /\ export = NoExport

ExportInit ==
    /\ exportStore \in SUBSET (1..MaxRecords)
    /\ export = NoExport

-----------------------------------------------------------------------------
(* ai-extraction.js: fetchWithTimeout and the two Promise.all *)

\* transfer.fetches[i] is the fetch of image i: "pending" with its abort timer
\* armed, "ok" and "notOk" once it resolved with a response (the finally
\* cleared the timer), "aborted" by the timer, "failed" by the network.
\* transfer.bodies[i] is response.text() of image i: "unread", "reading",
\* then "json", "empty", "invalid", or "failed".
NoTransfer ==
    [pc |-> "idle", button |-> "none", fetches |-> <<>>, bodies |-> <<>>,
     loading |-> FALSE, btnDisabled |-> FALSE, status |-> ""]

\* the catch of extractProductData, and the click handler that awaited it
Caught(t, message) ==
    [t EXCEPT !.pc = "returned", !.loading = FALSE, !.btnDisabled = FALSE,
              !.status = "Error: " \o message]

\* the click handler disables its button and extractProductData sends a
\* request for each image
ExtractProductDataCall ==
    /\ transfer.pc \in {"idle", "returned"}
    /\ \E n \in 1..MaxImages, button \in {"process", "rescan"} :
          transfer' = [pc |-> "fetching", button |-> button,
                       fetches |-> [i \in 1..n |-> "pending"],
                       bodies |-> [i \in 1..n |-> "unread"],
                       loading |-> TRUE, btnDisabled |-> TRUE, status |-> ""]

\* lines 54-58, up to the first await of each response: a status that is not
\* OK throws, the others start reading their body
StartParsing(t) ==
    IF \E i \in DOMAIN t.fetches : t.fetches[i] = "notOk"
    THEN Caught(t, "Server error 500. Please try again.")
    ELSE [t EXCEPT !.pc = "parsing", !.bodies = [i \in DOMAIN @ |-> "reading"]]

\* the headers of a response arrive before the timer fires: fetch resolves,
\* the timer is cleared, and the first Promise.all resolves with the last one
FetchResolves ==
    /\ transfer.pc \in {"fetching", "returned"}
    /\ \E i \in DOMAIN transfer.fetches, answer \in {"ok", "notOk"} :
          /\ transfer.fetches[i] = "pending"
          /\ LET t == [transfer EXCEPT !.fetches[i] = answer]
             IN  transfer' = IF /\ transfer.pc = "fetching"
                                /\ \A j \in DOMAIN t.fetches : t.fetches[j] # "pending"
                             THEN StartParsing(t)
                             ELSE t

\* the first rejection rejects the Promise.all and is caught; the requests
\* still under way go on, and what they end with is ignored
Rejected(t, message) == IF t.pc = "returned" THEN t ELSE Caught(t, message)

\* the network fails before any response: fetch rejects
FetchFails ==
    /\ transfer.pc \in {"fetching", "returned"}
    /\ \E i \in DOMAIN transfer.fetches :
          /\ transfer.fetches[i] = "pending"
          /\ transfer' = Rejected([transfer EXCEPT !.fetches[i] = "failed"],
                                  "Failed to fetch")

\* 30 seconds after a request was sent without a response: controller.abort()
\* rejects the fetch
AbortTimer ==
    /\ transfer.pc \in {"fetching", "returned"}
    /\ \E i \in DOMAIN transfer.fetches :
          /\ transfer.fetches[i] = "pending"
          /\ transfer' = Rejected([transfer EXCEPT !.fetches[i] = "aborted"],
                                  "The operation was aborted.")

\* lines 59-68 and 74-108 after the last body: a body that is empty or no
\* JSON throws; the merge loop throws or the record is applied
Parsed(t, mergeThrows) ==
    IF \E i \in DOMAIN t.bodies : t.bodies[i] = "empty"
    THEN Caught(t, "Empty response from server.")
    ELSE IF \E i \in DOMAIN t.bodies : t.bodies[i] = "invalid"
    THEN Caught(t, "Invalid response. Please try again in a moment.")
    ELSE IF \A i \in DOMAIN t.bodies : t.bodies[i] = "json"
    THEN IF mergeThrows THEN Caught(t, RateLimitMessage)
         ELSE [t EXCEPT !.pc = "returned", !.loading = FALSE, !.btnDisabled = FALSE,
                        !.status = "Product detected"]
    ELSE t

\* the body of a response has arrived in full: response.text() resolves
BodyArrives ==
    /\ transfer.pc = "parsing"
    /\ \E i \in DOMAIN transfer.bodies, text \in {"json", "empty", "invalid"},
          mergeThrows \in BOOLEAN :
          /\ transfer.bodies[i] = "reading"
          /\ transfer' = Parsed([transfer EXCEPT !.bodies[i] = text], mergeThrows)

\* the connection breaks while a body is read: response.text() rejects
BodyFails ==
    /\ transfer.pc = "parsing"
    /\ \E i \in DOMAIN transfer.bodies :
          /\ transfer.bodies[i] = "reading"
          /\ transfer' = Caught([transfer EXCEPT !.bodies[i] = "failed"],
                                "Failed to fetch")

TransferIdle == transfer = NoTransfer

-----------------------------------------------------------------------------
(* app.js: debounce and the input listener of the barcode field, in time *)

DebounceWait == 500

\* a debounce that leaves the timeout it set before running
debounce_NoClear(timeouts, now, value) ==
    timeouts \cup {[due |-> now + DebounceWait, value |-> value]}

\* debounce(fn, wait): a call clears the timeout set by the call before and
\* sets one that runs fn(value) after wait
debounce(timeouts, now, value) ==
    {[due |-> now + DebounceWait, value |-> value]}

NoTyping == [now |-> 0, timeouts |-> {}, inputs |-> <<>>, calls |-> <<>>]

\* the values the barcode field holds after an input event
FieldValues == { Code3, Code13, Code12 \o <<" ">> }

\* an input event on the barcode field
BarcodeInput ==
    /\ Len(typing.inputs) < MaxInputs
    /\ \E value \in FieldValues :
          typing' = [typing EXCEPT
                       !.timeouts = debounce(@, typing.now, Trim(value)),
                       !.inputs = Append(@, [at |-> typing.now, value |-> value])]

\* a timeout that is due runs the debounced function, which calls
\* checkBarcodeExists for a value of 12 or 13 digits
TimeoutRuns ==
    /\ \E timeout \in typing.timeouts :
          /\ timeout.due <= typing.now
          /\ typing' = [typing EXCEPT
                          !.timeouts = @ \ {timeout},
                          !.calls = Append(@,
                             [at |-> typing.now, value |-> timeout.value,
                              inputsBefore |-> Len(typing.inputs),
                              step |-> DebouncedStep(0, timeout.value)])]

\* 250 ms pass; a timeout may run late, never early
TimePasses ==
    /\ typing.now + 250 <= MaxMs
    /\ typing' = [typing EXCEPT !.now = @ + 250]

TypingIdle == typing = NoTyping

-----------------------------------------------------------------------------
(* image-handler.js and the handlers that empty state.currentImages *)

\* An object URL is the number of its creation. previews.currentImages holds
\* the preview of each image of state.currentImages, previews.objectURLs the
\* URLs created and not revoked, previews.files the files of the selections
\* not read yet.
NoPreviews == [files |-> 0, created |-> 0, currentImages |-> <<>>, objectURLs |-> {}]

\* a change event of the camera or gallery input with one or two files
HandleImageSelection ==
    /\ \E files \in 1..2 :
          /\ previews.created + previews.files + files <= MaxPreviews
          /\ previews' = [previews EXCEPT !.files = @ + files]

\* the loop of handleImageSelection for one file: the blob gets an object URL
\* and the image is pushed
ImageRead ==
    /\ previews.files > 0
    /\ LET preview == previews.created + 1
       IN  previews' = [previews EXCEPT !.files = @ - 1, !.created = preview,
                           !.objectURLs = @ \cup {preview},
                           !.currentImages = Append(@, preview)]

\* clearImages revokes the URL of every current image
ClearImagesRevokes ==
    /\ previews' = [previews EXCEPT
                      !.objectURLs = @ \ Range(previews.currentImages),
                      !.currentImages = <<>>]

\* saveProduct after a save that succeeded (lines 153-158): the preview list
\* is emptied and state.currentImages = []
SaveEmptiesImages ==
    /\ previews.currentImages # <<>>
    /\ previews' = [previews EXCEPT !.currentImages = <<>>]

\* closeDuplicateModal (lines 50-58): the same
CloseDuplicateEmptiesImages ==
    /\ previews.currentImages # <<>>
    /\ previews' = [previews EXCEPT !.currentImages = <<>>]

PreviewsIdle == previews = NoPreviews

-----------------------------------------------------------------------------
(* image-handler.js: the dimensions compressImageToWebP encodes *)

\* Numbers are IEEE 754 doubles: a division and a multiplication each round
\* their exact result to 53 significant bits, to nearest, ties to even. The
\* operators below compute these roundings on integers.

maxWidth == 1920

\* (x * 2^k) mod w
RECURSIVE MulPow2Mod(_, _, _)
MulPow2Mod(x, k, w) == IF k = 0 THEN x % w ELSE MulPow2Mod((2 * x) % w, k - 1, w)

\* for width > maxWidth: the j with 2^-j <= maxWidth / width < 2^(1-j), so
\* that the double maxWidth / width is a multiple of 2^-(52+j)
RECURSIVE BinaryExponent(_, _)
BinaryExponent(width, j) ==
    IF maxWidth * 2^j >= width THEN j ELSE BinaryExponent(width, j + 1)

\* maxWidth / img.width for width > maxWidth: the double nearest to the
\* quotient is (maxWidth * 2^e + ScaleError(width)) / (width * 2^e) with
\* e = 52 + BinaryExponent(width, 0); the error is the remainder of the
\* division, negative when the quotient is rounded down
ScaleError(width) ==
    LET e == 52 + BinaryExponent(width, 0)
        rem == MulPow2Mod(maxWidth % width, e, width)
        quotientOdd == MulPow2Mod(maxWidth % (2 * width), e, 2 * width) >= width
    IN  IF 2 * rem < width THEN 0 - rem
        ELSE IF 2 * rem > width THEN width - rem
        ELSE IF quotientOdd THEN width - rem ELSE 0 - rem

\* Math.floor(img.width * scale): the product is maxWidth + error / 2^e
\* exactly, and doubles next to 1920 are 2^-42 apart, so the product rounds to
\* the double below 1920 when the error is below -2^(e-43)
ScaledWidth(width) ==
    IF width <= maxWidth THEN width
    ELSE IF 0 - ScaleError(width) > 2^(9 + BinaryExponent(width, 0))
    THEN maxWidth - 1
    ELSE maxWidth

\* floor(log2(n)) for n >= 1
RECURSIVE ILog2(_, _)
ILog2(n, p) == IF 2^(p + 1) > n THEN p ELSE ILog2(n, p + 1)

\* Math.floor(img.height * scale): the product differs from the real
\* maxWidth * height / width by less than 2^-40, which changes the floor only
\* when the real quotient is an integer N and the double of the product is
\* below N
ScaledHeight(width, height) ==
    IF width <= maxWidth THEN height
    ELSE LET j == BinaryExponent(width, 0)
             error == ScaleError(width)
             N == (maxWidth * height) \div width
             exact == (maxWidth * height) % width = 0
             p == IF 2^ILog2(N, 0) = N THEN ILog2(N, 0) - 1 ELSE ILog2(N, 0)
         IN  IF ~exact \/ error >= 0 \/ N = 0 THEN N
             ELSE IF 2 * height * (0 - error) > width * 2^(j + p) THEN N - 1
             ELSE N

\* img.onload: the canvas the image is drawn on and encoded from
compressImageToWebP(img) ==
    [width |-> ScaledWidth(img.width), height |-> ScaledHeight(img.width, img.height)]

\* the source images encoded: small ones, the example of 4000 x 3000, and
\* every width from 1920 to MaxWidth with a few heights
SourceImages ==
    { [width |-> 640, height |-> 480], [width |-> 4000, height |-> 3000],
      [width |-> 3840, height |-> 2160] }
    \cup { [width |-> w, height |-> h] : w \in maxWidth..MaxWidth, h \in {1080, 3000} }
    \cup { [width |-> w, height |-> w \div 2] : w \in maxWidth..MaxWidth }

NoImage == [width |-> 0, height |-> 0]

EncodeIdle == encode = [pc |-> "idle", img |-> NoImage, canvas |-> NoImage]

EncodeInit ==
    \E img \in SourceImages : encode = [pc |-> "reading", img |-> img, canvas |-> NoImage]

\* img.onload to resolve(blob): the image is drawn on a canvas of the scaled
\* size and encoded
ImageLoaded ==
    /\ encode.pc = "reading"
    /\ encode' = [encode EXCEPT !.pc = "encoded", !.canvas = compressImageToWebP(encode.img)]

\* the encoded image is given to compressImageToWebP again
EncodedAgain ==
    /\ encode.pc = "encoded"
    /\ encode.canvas # encode.img
    /\ encode' = [pc |-> "reading", img |-> encode.canvas, canvas |-> NoImage]

-----------------------------------------------------------------------------
(* user-auth.js: showUserLoginOverlay *)

\* the users of app_users that loadUsers returned, and a name not taken yet
UserNames == {"Ann", "Bob"}

NewNames == {"Cy"}

\* login.checks are the validatePin calls in flight, each with the name it
\* was sent for and whether the PIN sent matches that name's; login.creates
\* the createUser calls in flight, each with its name and whether the store
\* will accept it; login.answeredFor is the name of the answer that let the
\* last signIn run
NoLogin ==
    [overlay |-> FALSE, view |-> "select", pendingName |-> "", createBtnDisabled |-> FALSE,
     pinError |-> "", addUserError |-> "", checks |-> {}, creates |-> {},
     currentUser |-> "", answeredFor |-> ""]

\* the overlay as showUserLoginOverlay shows it
OverlayShown == [NoLogin EXCEPT !.overlay = TRUE]

\* signIn(name), run by the answer to a request sent for `answeredFor`
signIn(l, name, answeredFor) ==
    [l EXCEPT !.currentUser = name, !.overlay = FALSE, !.answeredFor = answeredFor]

\* a name button of the select view
NameButtonClick ==
    /\ login.overlay /\ login.view = "select"
    /\ \E name \in UserNames :
          login' = [login EXCEPT !.pendingName = name, !.pinError = "", !.view = "pin"]

ShowAddUserClick ==
    /\ login.overlay /\ login.view = "select"
    /\ login' = [login EXCEPT !.addUserError = "", !.view = "add"]

PinBackClick ==
    /\ login.overlay /\ login.view = "pin"
    /\ login' = [login EXCEPT !.view = "select"]

AddBackClick ==
    /\ login.overlay /\ login.view = "add"
    /\ login' = [login EXCEPT !.view = "select"]

\* Unlock, or Enter in the PIN field, with a PIN typed: attemptPin up to its
\* await
AttemptPin ==
    /\ login.overlay /\ login.view = "pin"
    /\ \E matches \in BOOLEAN :
          login' = [login EXCEPT !.checks = @ \cup
                      {[name |-> login.pendingName, matches |-> matches]}]

\* validatePin returns, true for a PIN that matches unless the request
\* failed, and attemptPin resumes
PinAnswer ==
    /\ \E check \in login.checks, responseOk \in BOOLEAN :
          LET ok == responseOk /\ check.matches
              l == [login EXCEPT !.checks = @ \ {check}]
          IN  login' = IF ok THEN signIn(l, login.pendingName, check.name)
                       ELSE [l EXCEPT !.pinError = "Wrong PIN, try again"]

\* Create, or Enter in the new PIN field, with a name and a PIN typed:
\* attemptCreate up to its await
AttemptCreate ==
    /\ login.overlay /\ login.view = "add"
    /\ ~login.createBtnDisabled
    /\ \E name \in UserNames \cup NewNames :
          login' = [login EXCEPT !.createBtnDisabled = TRUE,
                      !.creates = @ \cup {[name |-> name, accepted |-> name \in NewNames]}]

\* createUser returns and attemptCreate resumes
CreateAnswer ==
    /\ \E create \in login.creates, responseOk \in BOOLEAN :
          LET l == [login EXCEPT !.creates = @ \ {create}, !.createBtnDisabled = FALSE]
          IN  login' = IF responseOk /\ create.accepted
                       THEN signIn(l, create.name, create.name)
                       ELSE [l EXCEPT !.addUserError =
                               IF create.accepted THEN "Could not create user"
                               ELSE "That name is already taken"]

LoginIdle == login = NoLogin

LoginInit == login = OverlayShown

-----------------------------------------------------------------------------
(* Specifications *)

\* generateSKU applied to every drawn input
NextSKU == SKUNext /\ UNCHANGED <<mergeVars, fetchVars, appVars, authVars, exportVars, transferVars, debounceVars, previewVars, compressVars, loginVars>>

InitSKU == SKUInit /\ MergeIdle /\ FetchIdle /\ AppIdle /\ AuthIdle /\ ExportIdle /\ TransferIdle /\ TypingIdle /\ PreviewsIdle /\ EncodeIdle /\ LoginIdle

SpecSKU == InitSKU /\ [][NextSKU]_vars

\* the merge loop applied to every drawn list of responses
NextMerge ==
    \/ MergeIteration /\ UNCHANGED <<skuVars, fetchVars, appVars, authVars, exportVars, transferVars, debounceVars, previewVars, compressVars, loginVars>>
    \/ MergeDone /\ UNCHANGED <<skuVars, fetchVars, appVars, authVars, exportVars, transferVars, debounceVars, previewVars, compressVars, loginVars>>

InitMerge == MergeInit /\ SKUIdle /\ FetchIdle /\ AppIdle /\ AuthIdle /\ ExportIdle /\ TransferIdle /\ TypingIdle /\ PreviewsIdle /\ EncodeIdle /\ LoginIdle

SpecMerge == InitMerge /\ [][NextMerge]_vars

\* fetchProductForEdit applied to every drawn table and keys
NextFetch == FetchProductForEditCall /\ UNCHANGED <<skuVars, mergeVars, appVars, authVars, exportVars, transferVars, debounceVars, previewVars, compressVars, loginVars>>

InitFetch == FetchInit /\ SKUIdle /\ MergeIdle /\ AppIdle /\ AuthIdle /\ ExportIdle /\ TransferIdle /\ TypingIdle /\ PreviewsIdle /\ EncodeIdle /\ LoginIdle

SpecFetch == InitFetch /\ [][NextFetch]_vars

\* Entering a product: the barcode field with its debounced duplicate check,
\* the scanner, and the images with their extractions, against a store that
\* nobody writes to meanwhile.
NextEntry ==
    \/ TypeBarcode /\ UNCHANGED <<skuVars, mergeVars, fetchVars, authVars, exportVars, transferVars, debounceVars, previewVars, compressVars, loginVars>>
    \/ DebounceFire /\ UNCHANGED <<skuVars, mergeVars, fetchVars, authVars, exportVars, transferVars, debounceVars, previewVars, compressVars, loginVars>>
    \/ LookupResponse /\ UNCHANGED <<skuVars, mergeVars, fetchVars, authVars, exportVars, transferVars, debounceVars, previewVars, compressVars, loginVars>>
    \/ StartBarcodeScanner /\ UNCHANGED <<skuVars, mergeVars, fetchVars, authVars, exportVars, transferVars, debounceVars, previewVars, compressVars, loginVars>>
    \/ Detected /\ UNCHANGED <<skuVars, mergeVars, fetchVars, authVars, exportVars, transferVars, debounceVars, previewVars, compressVars, loginVars>>
    \/ StopBarcodeScanner /\ UNCHANGED <<skuVars, mergeVars, fetchVars, authVars, exportVars, transferVars, debounceVars, previewVars, compressVars, loginVars>>
    \/ CaptureBarcodeAndStop /\ UNCHANGED <<skuVars, mergeVars, fetchVars, authVars, exportVars, transferVars, debounceVars, previewVars, compressVars, loginVars>>
    \/ SelectImage /\ UNCHANGED <<skuVars, mergeVars, fetchVars, authVars, exportVars, transferVars, debounceVars, previewVars, compressVars, loginVars>>
    \/ ClearImages /\ UNCHANGED <<skuVars, mergeVars, fetchVars, authVars, exportVars, transferVars, debounceVars, previewVars, compressVars, loginVars>>
    \/ ProcessClick /\ UNCHANGED <<skuVars, mergeVars, fetchVars, authVars, exportVars, transferVars, debounceVars, previewVars, compressVars, loginVars>>
    \/ RescanClick /\ UNCHANGED <<skuVars, mergeVars, fetchVars, authVars, exportVars, transferVars, debounceVars, previewVars, compressVars, loginVars>>
    \/ ExtractComplete /\ UNCHANGED <<skuVars, mergeVars, fetchVars, authVars, exportVars, transferVars, debounceVars, previewVars, compressVars, loginVars>>

InitEntry == AppInit /\ SKUIdle /\ MergeIdle /\ FetchIdle /\ AuthIdle /\ ExportIdle /\ TransferIdle /\ TypingIdle /\ PreviewsIdle /\ EncodeIdle /\ LoginIdle

SpecEntry == InitEntry /\ [][NextEntry]_vars

\* Scanning and extracting: the scanner, the chosen images and their
\* extractions, with the duplicate checks these set off; nobody types into the
\* barcode field and the chosen images are not cleared.
NextScan ==
    \/ StartBarcodeScanner /\ UNCHANGED <<skuVars, mergeVars, fetchVars, authVars, exportVars, transferVars, debounceVars, previewVars, compressVars, loginVars>>
    \/ Detected /\ UNCHANGED <<skuVars, mergeVars, fetchVars, authVars, exportVars, transferVars, debounceVars, previewVars, compressVars, loginVars>>
    \/ StopBarcodeScanner /\ UNCHANGED <<skuVars, mergeVars, fetchVars, authVars, exportVars, transferVars, debounceVars, previewVars, compressVars, loginVars>>
    \/ CaptureBarcodeAndStop /\ UNCHANGED <<skuVars, mergeVars, fetchVars, authVars, exportVars, transferVars, debounceVars, previewVars, compressVars, loginVars>>
    \/ SelectImage /\ UNCHANGED <<skuVars, mergeVars, fetchVars, authVars, exportVars, transferVars, debounceVars, previewVars, compressVars, loginVars>>
    \/ ProcessClick /\ UNCHANGED <<skuVars, mergeVars, fetchVars, authVars, exportVars, transferVars, debounceVars, previewVars, compressVars, loginVars>>
    \/ RescanClick /\ UNCHANGED <<skuVars, mergeVars, fetchVars, authVars, exportVars, transferVars, debounceVars, previewVars, compressVars, loginVars>>
    \/ ExtractComplete /\ UNCHANGED <<skuVars, mergeVars, fetchVars, authVars, exportVars, transferVars, debounceVars, previewVars, compressVars, loginVars>>
    \/ DebounceFire /\ UNCHANGED <<skuVars, mergeVars, fetchVars, authVars, exportVars, transferVars, debounceVars, previewVars, compressVars, loginVars>>
    \/ LookupResponse /\ UNCHANGED <<skuVars, mergeVars, fetchVars, authVars, exportVars, transferVars, debounceVars, previewVars, compressVars, loginVars>>

SpecScan == InitEntry /\ [][NextScan]_vars

\* Saving a product: from the form as the first extraction of a session left
\* it (SelectImage, ProcessClick, ExtractComplete after AppInit), through the
\* save, its dialogs and the edit mode. The user changes a field only while
\* the form holds a product (Save is enabled) and no dialog covers it.
FormInUse == ~dom.saveBtnDisabled /\ ~dom.successModal /\ ~dom.duplicateModal

NextSave ==
    \/ FormInUse /\ TypeStyle /\ UNCHANGED <<skuVars, mergeVars, fetchVars, authVars, exportVars, transferVars, debounceVars, previewVars, compressVars, loginVars>>
    \/ FormInUse /\ TypeBarcode /\ UNCHANGED <<skuVars, mergeVars, fetchVars, authVars, exportVars, transferVars, debounceVars, previewVars, compressVars, loginVars>>
    \/ DebounceFire /\ UNCHANGED <<skuVars, mergeVars, fetchVars, authVars, exportVars, transferVars, debounceVars, previewVars, compressVars, loginVars>>
    \/ LookupResponse /\ UNCHANGED <<skuVars, mergeVars, fetchVars, authVars, exportVars, transferVars, debounceVars, previewVars, compressVars, loginVars>>
    \/ SaveClick /\ UNCHANGED <<skuVars, mergeVars, fetchVars, authVars, exportVars, transferVars, debounceVars, previewVars, compressVars, loginVars>>
    \/ StoreSave /\ UNCHANGED <<skuVars, mergeVars, fetchVars, authVars, exportVars, transferVars, debounceVars, previewVars, compressVars, loginVars>>
    \/ SaveResponse /\ UNCHANGED <<skuVars, mergeVars, fetchVars, authVars, exportVars, transferVars, debounceVars, previewVars, compressVars, loginVars>>
    \/ SuccessModalTimer /\ UNCHANGED <<skuVars, mergeVars, fetchVars, authVars, exportVars, transferVars, debounceVars, previewVars, compressVars, loginVars>>
    \/ DuplicateModalTimer /\ UNCHANGED <<skuVars, mergeVars, fetchVars, authVars, exportVars, transferVars, debounceVars, previewVars, compressVars, loginVars>>
    \/ CloseModal /\ UNCHANGED <<skuVars, mergeVars, fetchVars, authVars, exportVars, transferVars, debounceVars, previewVars, compressVars, loginVars>>
    \/ EditLastSaved /\ UNCHANGED <<skuVars, mergeVars, fetchVars, authVars, exportVars, transferVars, debounceVars, previewVars, compressVars, loginVars>>
    \/ CancelEdit /\ UNCHANGED <<skuVars, mergeVars, fetchVars, authVars, exportVars, transferVars, debounceVars, previewVars, compressVars, loginVars>>
    \/ CloseDuplicateModal /\ UNCHANGED <<skuVars, mergeVars, fetchVars, authVars, exportVars, transferVars, debounceVars, previewVars, compressVars, loginVars>>
    \/ EditDuplicateProduct /\ UNCHANGED <<skuVars, mergeVars, fetchVars, authVars, exportVars, transferVars, debounceVars, previewVars, compressVars, loginVars>>
    \/ EditFetchResponse /\ UNCHANGED <<skuVars, mergeVars, fetchVars, authVars, exportVars, transferVars, debounceVars, previewVars, compressVars, loginVars>>

InitSave == AfterFirstExtraction /\ SKUIdle /\ MergeIdle /\ FetchIdle /\ AuthIdle /\ ExportIdle /\ TransferIdle /\ TypingIdle /\ PreviewsIdle /\ EncodeIdle /\ LoginIdle

SpecSave == InitSave /\ [][NextSave]_vars

\* Extractions of one to MaxImages images, each ending with the merged record,
\* with a failure reported by the endpoint or with a request that fails.
NextExtract ==
    \/ ProcessClick /\ UNCHANGED <<skuVars, mergeVars, fetchVars, authVars, exportVars, transferVars, debounceVars, previewVars, compressVars, loginVars>>
    \/ RescanClick /\ UNCHANGED <<skuVars, mergeVars, fetchVars, authVars, exportVars, transferVars, debounceVars, previewVars, compressVars, loginVars>>
    \/ ExtractComplete /\ UNCHANGED <<skuVars, mergeVars, fetchVars, authVars, exportVars, transferVars, debounceVars, previewVars, compressVars, loginVars>>
    \/ ExtractRejected /\ UNCHANGED <<skuVars, mergeVars, fetchVars, authVars, exportVars, transferVars, debounceVars, previewVars, compressVars, loginVars>>

InitExtract == ExtractInit /\ SKUIdle /\ MergeIdle /\ FetchIdle /\ AuthIdle /\ ExportIdle /\ TransferIdle /\ TypingIdle /\ PreviewsIdle /\ EncodeIdle /\ LoginIdle

SpecExtract == InitExtract /\ [][NextExtract]_vars

\* The scanner from a page that has not loaded the decoder library yet.
NextScanner ==
    \/ StartBarcodeScanner /\ UNCHANGED <<skuVars, mergeVars, fetchVars, authVars, exportVars, transferVars, debounceVars, previewVars, compressVars, loginVars>>
    \/ QuaggaLoaded /\ UNCHANGED <<skuVars, mergeVars, fetchVars, authVars, exportVars, transferVars, debounceVars, previewVars, compressVars, loginVars>>
    \/ QuaggaLoadError /\ UNCHANGED <<skuVars, mergeVars, fetchVars, authVars, exportVars, transferVars, debounceVars, previewVars, compressVars, loginVars>>
    \/ DetectedAny /\ UNCHANGED <<skuVars, mergeVars, fetchVars, authVars, exportVars, transferVars, debounceVars, previewVars, compressVars, loginVars>>
    \/ StopBarcodeScanner /\ UNCHANGED <<skuVars, mergeVars, fetchVars, authVars, exportVars, transferVars, debounceVars, previewVars, compressVars, loginVars>>
    \/ CaptureBarcodeAndStop /\ UNCHANGED <<skuVars, mergeVars, fetchVars, authVars, exportVars, transferVars, debounceVars, previewVars, compressVars, loginVars>>
    \/ LookupResponse /\ UNCHANGED <<skuVars, mergeVars, fetchVars, authVars, exportVars, transferVars, debounceVars, previewVars, compressVars, loginVars>>

InitScanner == ScannerInit /\ SKUIdle /\ MergeIdle /\ FetchIdle /\ AuthIdle /\ ExportIdle /\ TransferIdle /\ TypingIdle /\ PreviewsIdle /\ EncodeIdle /\ LoginIdle

SpecScanner == InitScanner /\ [][NextScanner]_vars

\* Opening the page and keeping the session, minute by minute.
NextAuth ==
    \/ StartApp /\ UNCHANGED <<skuVars, mergeVars, fetchVars, appVars, exportVars, transferVars, debounceVars, previewVars, compressVars, loginVars>>
    \/ IntervalFires /\ UNCHANGED <<skuVars, mergeVars, fetchVars, appVars, exportVars, transferVars, debounceVars, previewVars, compressVars, loginVars>>
    \/ RefreshOk /\ UNCHANGED <<skuVars, mergeVars, fetchVars, appVars, exportVars, transferVars, debounceVars, previewVars, compressVars, loginVars>>
    \/ RefreshFails /\ UNCHANGED <<skuVars, mergeVars, fetchVars, appVars, exportVars, transferVars, debounceVars, previewVars, compressVars, loginVars>>
    \/ SignInOk /\ UNCHANGED <<skuVars, mergeVars, fetchVars, appVars, exportVars, transferVars, debounceVars, previewVars, compressVars, loginVars>>
    \/ SignInFails /\ UNCHANGED <<skuVars, mergeVars, fetchVars, appVars, exportVars, transferVars, debounceVars, previewVars, compressVars, loginVars>>
    \/ Tick /\ UNCHANGED <<skuVars, mergeVars, fetchVars, appVars, exportVars, transferVars, debounceVars, previewVars, compressVars, loginVars>>

InitAuth == AuthInit /\ SKUIdle /\ MergeIdle /\ FetchIdle /\ AppIdle /\ ExportIdle /\ TransferIdle /\ TypingIdle /\ PreviewsIdle /\ EncodeIdle /\ LoginIdle

SpecAuth == InitAuth /\ [][NextAuth]_vars

\* The same with an auth service that grants every request.
NextSession ==
    \/ StartApp /\ UNCHANGED <<skuVars, mergeVars, fetchVars, appVars, exportVars, transferVars, debounceVars, previewVars, compressVars, loginVars>>
    \/ IntervalFires /\ UNCHANGED <<skuVars, mergeVars, fetchVars, appVars, exportVars, transferVars, debounceVars, previewVars, compressVars, loginVars>>
    \/ RefreshOk /\ UNCHANGED <<skuVars, mergeVars, fetchVars, appVars, exportVars, transferVars, debounceVars, previewVars, compressVars, loginVars>>
    \/ SignInOk /\ UNCHANGED <<skuVars, mergeVars, fetchVars, appVars, exportVars, transferVars, debounceVars, previewVars, compressVars, loginVars>>
    \/ Tick /\ UNCHANGED <<skuVars, mergeVars, fetchVars, appVars, exportVars, transferVars, debounceVars, previewVars, compressVars, loginVars>>

SpecSession == InitAuth /\ [][NextSession]_vars

\* An export of a store that nobody writes to meanwhile; every request is
\* answered or fails.
NextExport ==
    \/ ExportData /\ UNCHANGED <<skuVars, mergeVars, fetchVars, appVars, authVars, transferVars, debounceVars, previewVars, compressVars, loginVars>>
    \/ ExportPage /\ UNCHANGED <<skuVars, mergeVars, fetchVars, appVars, authVars, transferVars, debounceVars, previewVars, compressVars, loginVars>>
    \/ ExportPageFails /\ UNCHANGED <<skuVars, mergeVars, fetchVars, appVars, authVars, transferVars, debounceVars, previewVars, compressVars, loginVars>>

InitExport == ExportInit /\ SKUIdle /\ MergeIdle /\ FetchIdle /\ AppIdle /\ AuthIdle /\ TransferIdle /\ TypingIdle /\ PreviewsIdle /\ EncodeIdle /\ LoginIdle

SpecExport == InitExport /\ [][NextExport]_vars

FairExport == SpecExport /\ WF_vars(NextExport)

\* One extractProductData call after another, each with its requests answered,
\* failing or timing out. The abort timers are the only steps that are certain
\* to happen: the endpoint may never answer and may stop in the middle of
\* a body.
NextTransfer ==
    \/ ExtractProductDataCall /\ UNCHANGED <<skuVars, mergeVars, fetchVars, appVars, authVars, exportVars, debounceVars, previewVars, compressVars, loginVars>>
    \/ FetchResolves /\ UNCHANGED <<skuVars, mergeVars, fetchVars, appVars, authVars, exportVars, debounceVars, previewVars, compressVars, loginVars>>
    \/ FetchFails /\ UNCHANGED <<skuVars, mergeVars, fetchVars, appVars, authVars, exportVars, debounceVars, previewVars, compressVars, loginVars>>
    \/ AbortTimer /\ UNCHANGED <<skuVars, mergeVars, fetchVars, appVars, authVars, exportVars, debounceVars, previewVars, compressVars, loginVars>>
    \/ BodyArrives /\ UNCHANGED <<skuVars, mergeVars, fetchVars, appVars, authVars, exportVars, debounceVars, previewVars, compressVars, loginVars>>
    \/ BodyFails /\ UNCHANGED <<skuVars, mergeVars, fetchVars, appVars, authVars, exportVars, debounceVars, previewVars, compressVars, loginVars>>

InitTransfer == TransferIdle /\ SKUIdle /\ MergeIdle /\ FetchIdle /\ AppIdle /\ AuthIdle /\ ExportIdle /\ TypingIdle /\ PreviewsIdle /\ EncodeIdle /\ LoginIdle

SpecTransfer == InitTransfer /\ [][NextTransfer]_vars

FairTransfer ==
    SpecTransfer /\ WF_vars(AbortTimer /\ UNCHANGED <<skuVars, mergeVars, fetchVars, appVars, authVars, exportVars, debounceVars, previewVars, compressVars, loginVars>>)

\* Typing into the barcode field on a clock.
NextTyping ==
    \/ BarcodeInput /\ UNCHANGED <<skuVars, mergeVars, fetchVars, appVars, authVars, exportVars, transferVars, previewVars, compressVars, loginVars>>
    \/ TimeoutRuns /\ UNCHANGED <<skuVars, mergeVars, fetchVars, appVars, authVars, exportVars, transferVars, previewVars, compressVars, loginVars>>
    \/ TimePasses /\ UNCHANGED <<skuVars, mergeVars, fetchVars, appVars, authVars, exportVars, transferVars, previewVars, compressVars, loginVars>>

InitTyping == TypingIdle /\ SKUIdle /\ MergeIdle /\ FetchIdle /\ AppIdle /\ AuthIdle /\ ExportIdle /\ TransferIdle /\ PreviewsIdle /\ EncodeIdle /\ LoginIdle

SpecTyping == InitTyping /\ [][NextTyping]_vars

\* The images of a session and their previews.
NextPreviews ==
    \/ HandleImageSelection /\ UNCHANGED <<skuVars, mergeVars, fetchVars, appVars, authVars, exportVars, transferVars, debounceVars, compressVars, loginVars>>
    \/ ImageRead /\ UNCHANGED <<skuVars, mergeVars, fetchVars, appVars, authVars, exportVars, transferVars, debounceVars, compressVars, loginVars>>
    \/ ClearImagesRevokes /\ UNCHANGED <<skuVars, mergeVars, fetchVars, appVars, authVars, exportVars, transferVars, debounceVars, compressVars, loginVars>>
    \/ SaveEmptiesImages /\ UNCHANGED <<skuVars, mergeVars, fetchVars, appVars, authVars, exportVars, transferVars, debounceVars, compressVars, loginVars>>
    \/ CloseDuplicateEmptiesImages /\ UNCHANGED <<skuVars, mergeVars, fetchVars, appVars, authVars, exportVars, transferVars, debounceVars, compressVars, loginVars>>

InitPreviews == PreviewsIdle /\ SKUIdle /\ MergeIdle /\ FetchIdle /\ AppIdle /\ AuthIdle /\ ExportIdle /\ TransferIdle /\ TypingIdle /\ EncodeIdle /\ LoginIdle

SpecPreviews == InitPreviews /\ [][NextPreviews]_vars

\* compressImageToWebP applied to every drawn source image, and to its output
NextEncode ==
    \/ ImageLoaded /\ UNCHANGED <<skuVars, mergeVars, fetchVars, appVars, authVars, exportVars, transferVars, debounceVars, previewVars, loginVars>>
    \/ EncodedAgain /\ UNCHANGED <<skuVars, mergeVars, fetchVars, appVars, authVars, exportVars, transferVars, debounceVars, previewVars, loginVars>>

InitEncode == EncodeInit /\ SKUIdle /\ MergeIdle /\ FetchIdle /\ AppIdle /\ AuthIdle /\ ExportIdle /\ TransferIdle /\ TypingIdle /\ PreviewsIdle /\ LoginIdle

SpecEncode == InitEncode /\ [][NextEncode]_vars

\* The login overlay from the moment it is shown.
NextLogin ==
    \/ NameButtonClick /\ UNCHANGED <<skuVars, mergeVars, fetchVars, appVars, authVars, exportVars, transferVars, debounceVars, previewVars, compressVars>>
    \/ ShowAddUserClick /\ UNCHANGED <<skuVars, mergeVars, fetchVars, appVars, authVars, exportVars, transferVars, debounceVars, previewVars, compressVars>>
    \/ PinBackClick /\ UNCHANGED <<skuVars, mergeVars, fetchVars, appVars, authVars, exportVars, transferVars, debounceVars, previewVars, compressVars>>
    \/ AddBackClick /\ UNCHANGED <<skuVars, mergeVars, fetchVars, appVars, authVars, exportVars, transferVars, debounceVars, previewVars, compressVars>>
    \/ AttemptPin /\ UNCHANGED <<skuVars, mergeVars, fetchVars, appVars, authVars, exportVars, transferVars, debounceVars, previewVars, compressVars>>
    \/ PinAnswer /\ UNCHANGED <<skuVars, mergeVars, fetchVars, appVars, authVars, exportVars, transferVars, debounceVars, previewVars, compressVars>>
    \/ AttemptCreate /\ UNCHANGED <<skuVars, mergeVars, fetchVars, appVars, authVars, exportVars, transferVars, debounceVars, previewVars, compressVars>>
    \/ CreateAnswer /\ UNCHANGED <<skuVars, mergeVars, fetchVars, appVars, authVars, exportVars, transferVars, debounceVars, previewVars, compressVars>>

InitLogin == LoginInit /\ SKUIdle /\ MergeIdle /\ FetchIdle /\ AppIdle /\ AuthIdle /\ ExportIdle /\ TransferIdle /\ TypingIdle /\ PreviewsIdle /\ EncodeIdle

SpecLogin == InitLogin /\ [][NextLogin]_vars

\* Saving while the images are scanned again: from the form as the first
\* extraction left it, the Rescan and Save buttons and their requests.
NextResave ==
    \/ RescanClick /\ UNCHANGED <<skuVars, mergeVars, fetchVars, authVars, exportVars, transferVars, debounceVars, previewVars, compressVars, loginVars>>
    \/ ExtractComplete /\ UNCHANGED <<skuVars, mergeVars, fetchVars, authVars, exportVars, transferVars, debounceVars, previewVars, compressVars, loginVars>>
    \/ SaveClick /\ UNCHANGED <<skuVars, mergeVars, fetchVars, authVars, exportVars, transferVars, debounceVars, previewVars, compressVars, loginVars>>
    \/ StoreSave /\ UNCHANGED <<skuVars, mergeVars, fetchVars, authVars, exportVars, transferVars, debounceVars, previewVars, compressVars, loginVars>>
    \/ SaveResponse /\ UNCHANGED <<skuVars, mergeVars, fetchVars, authVars, exportVars, transferVars, debounceVars, previewVars, compressVars, loginVars>>

SpecResave == InitSave /\ [][NextResave]_vars

\* the scanner is used before the images are sent for extraction
BeforeExtract == state.extractedData = NoData /\ pending.extractions = {}

\* A scanned barcode taken through to a save: the scanner, the extraction of
\* the chosen image, the save and the duplicate dialog that may answer it.
\* Nobody types, and the lookups of the scanned code stay unanswered.
NextScanSave ==
    \/ BeforeExtract /\ StartBarcodeScanner /\ UNCHANGED <<skuVars, mergeVars, fetchVars, authVars, exportVars, transferVars, debounceVars, previewVars, compressVars, loginVars>>
    \/ BeforeExtract /\ Detected /\ UNCHANGED <<skuVars, mergeVars, fetchVars, authVars, exportVars, transferVars, debounceVars, previewVars, compressVars, loginVars>>
    \/ BeforeExtract /\ CaptureBarcodeAndStop /\ UNCHANGED <<skuVars, mergeVars, fetchVars, authVars, exportVars, transferVars, debounceVars, previewVars, compressVars, loginVars>>
    \/ SelectImage /\ UNCHANGED <<skuVars, mergeVars, fetchVars, authVars, exportVars, transferVars, debounceVars, previewVars, compressVars, loginVars>>
    \/ ProcessClick /\ UNCHANGED <<skuVars, mergeVars, fetchVars, authVars, exportVars, transferVars, debounceVars, previewVars, compressVars, loginVars>>
    \/ ExtractComplete /\ UNCHANGED <<skuVars, mergeVars, fetchVars, authVars, exportVars, transferVars, debounceVars, previewVars, compressVars, loginVars>>
    \/ SaveClick /\ UNCHANGED <<skuVars, mergeVars, fetchVars, authVars, exportVars, transferVars, debounceVars, previewVars, compressVars, loginVars>>
    \/ StoreSave /\ UNCHANGED <<skuVars, mergeVars, fetchVars, authVars, exportVars, transferVars, debounceVars, previewVars, compressVars, loginVars>>
    \/ SaveResponse /\ UNCHANGED <<skuVars, mergeVars, fetchVars, authVars, exportVars, transferVars, debounceVars, previewVars, compressVars, loginVars>>
    \/ DuplicateModalTimer /\ UNCHANGED <<skuVars, mergeVars, fetchVars, authVars, exportVars, transferVars, debounceVars, previewVars, compressVars, loginVars>>
    \/ CloseDuplicateModal /\ UNCHANGED <<skuVars, mergeVars, fetchVars, authVars, exportVars, transferVars, debounceVars, previewVars, compressVars, loginVars>>

SpecScanSave == InitEntry /\ [][NextScanSave]_vars

-----------------------------------------------------------------------------
(* C1 *)

HasStyleChar(style) == \E i \in DOMAIN style : IsStyleChar(ToUpperChar(style[i]))

\* C1 (as amended): generateSKU returns at most 15 characters; the result is
\* empty exactly when the trimmed style is empty, or the style holds no
\* character a style code keeps and brand, color and size are all blank.
C1_SkuLengthAndEmptiness ==
    skuPc = "returned" =>
        /\ Len(skuResult) <= 15
        /\ (skuResult = <<>>) <=>
              \/ Trim(skuArgs.style) = <<>>
              \/ /\ ~HasStyleChar(skuArgs.style)
                 /\ Trim(skuArgs.brand) = <<>>
                 /\ Trim(skuArgs.color) = <<>>
                 /\ Trim(skuArgs.size) = <<>>

\* C1 witness: a call whose assembled SKU was longer than 15 characters and
\* was cut, and one made with a non-empty style.
C1_Witness ==
    /\ skuPc = "returned"
    /\ Len(skuResult) = 15
    /\ Len(generateSKU_NoCut(skuArgs.style, skuArgs.brand, skuArgs.color, skuArgs.size)) > 15

\* C1 as stated: at most 15 characters, and empty if and only if the style
\* (after trimming) is empty.
C1_Original ==
    skuPc = "returned" =>
        /\ Len(skuResult) <= 15
        /\ (skuResult = <<>>) <=> (Trim(skuArgs.style) = <<>>)

-----------------------------------------------------------------------------
(* C5 *)

Max(S) == CHOOSE x \in S : \A y \in S : y <= x

\* the later images (positions 2.. of the list) with a positive price / with notes
LaterWithPrice(rs) ==
    { k \in 2..Len(rs) : \E n \in rs[k].data.retail_price : n > 0 }

LaterWithNotes(rs) ==
    { k \in 2..Len(rs) : rs[k].data.notes \notin {Absent, ""} }

ExampleA == [name |-> "X", retail_price |-> {10}, notes |-> Absent]

ExampleB == [name |-> Absent, retail_price |-> {15}, notes |-> "dented"]

Succeeded(d) == [success |-> TRUE, error |-> <<>>, data |-> d]

\* C5: when every image succeeded, the merged record has image 0's name (its
\* fields other than price and notes); its price is that of the last later
\* image with a positive price, else image 0's; its notes are image 0's when
\* no later image carries notes; and images [A, B] of the example merge to
\* name "X", retail_price 15, notes "Image 2: dented".
C5_FirstImagePriority ==
    mergePc = "merged" =>
        /\ mergedData.name = results[1].data.name
        /\ mergedData.retail_price =
              IF LaterWithPrice(results) = {}
              THEN results[1].data.retail_price
              ELSE results[Max(LaterWithPrice(results))].data.retail_price
        /\ LaterWithNotes(results) = {} => mergedData.notes = results[1].data.notes
        /\ results = <<Succeeded(ExampleA), Succeeded(ExampleB)>> =>
              mergedData = [name |-> "X", retail_price |-> {15},
                            notes |-> "Image 2: dented"]

\* C5 witness: the example's two responses have been merged.
C5_Witness ==
    /\ mergePc = "merged"
    /\ results = <<Succeeded(ExampleA), Succeeded(ExampleB)>>
    /\ mergedData.retail_price = {15}

-----------------------------------------------------------------------------
(* C6 *)

\* the loop merges the image at zero-based position mergeI, which carries notes
MergesNotesOfLaterImage ==
    /\ mergePc = "loop" /\ mergePc' = "loop"
    /\ mergeI >= 1 /\ mergeI < Len(results)
    /\ mergeI' = mergeI + 1
    /\ results[mergeI + 1].data.notes \notin {Absent, ""}

\* C6 (as amended): when the image at zero-based position k >= 1 carries
\* notes, the merged notes become "<previous>; Additional from image <k+1>:
\* <new>" if notes already existed and "Image <k+1>: <new>" if none existed.
C6_NotesAppended ==
    [][ MergesNotesOfLaterImage =>
          mergedData'.notes =
             IF mergedData.notes \notin {Absent, ""}
             THEN mergedData.notes \o "; Additional from image "
                    \o ToString(mergeI + 1) \o ": " \o results[mergeI + 1].data.notes
             ELSE "Image " \o ToString(mergeI + 1) \o ": "
                    \o results[mergeI + 1].data.notes ]_vars

\* C6 witness: a later image's notes were appended to existing notes.
C6_Witness ==
    /\ mergePc = "merged"
    /\ mergedData.notes = "dented; Additional from image 2: dented"

\* C6 as stated: with previous notes the new ones are appended after
\* "; Additional from image k: " (k read as either numbering of the image),
\* and with no previous notes the merged notes are exactly the new text.
C6_Original ==
    [][ MergesNotesOfLaterImage =>
          IF mergedData.notes \notin {Absent, ""}
          THEN mergedData'.notes \in
                 { mergedData.notes \o "; Additional from image "
                     \o ToString(n) \o ": " \o results[mergeI + 1].data.notes
                   : n \in {mergeI, mergeI + 1} }
          ELSE mergedData'.notes = results[mergeI + 1].data.notes ]_vars

-----------------------------------------------------------------------------
(* C9 *)

MatchesOf(key) ==
    CASE key = "id" -> { r \in fetchTable : fetchArgs.productId # 0 /\ r.id = fetchArgs.productId }
      [] key = "barcode" -> { r \in fetchTable : fetchArgs.barcode # <<>> /\ r.barcode = fetchArgs.barcode }
      [] key = "sku" -> { r \in fetchTable : fetchArgs.sku # <<>> /\ r.sku = fetchArgs.sku }

\* the lookup for `key` was answered with at least one row
HasMatch(key) == fetchOutcome[key] = "rows" /\ MatchesOf(key) # {}

SomeLookupRejected == \E k \in {"id", "barcode", "sku"} : fetchOutcome[k] = "rejected"

PriorityResult ==
    IF HasMatch("id") THEN fetchResult \in MatchesOf("id")
    ELSE IF HasMatch("barcode") THEN fetchResult \in MatchesOf("barcode")
    ELSE IF HasMatch("sku") THEN fetchResult \in MatchesOf("sku")
    ELSE fetchResult = NoProduct

\* C9 (as amended): when none of the lookups it fires is rejected,
\* fetchProductForEdit returns the id match if there is one, else the barcode
\* match, else the sku match, else null; when a lookup it fires is rejected
\* (network failure, unparseable body) it returns null whatever the other
\* lookups matched.
C9_PriorityOrder ==
    fetchPc = "returned" =>
        IF SomeLookupRejected THEN fetchResult = NoProduct ELSE PriorityResult

\* C9 witness: the id and the barcode lookups matched different rows and the
\* id match was returned.
C9_Witness ==
    /\ fetchPc = "returned"
    /\ HasMatch("id") /\ HasMatch("barcode")
    /\ MatchesOf("id") # MatchesOf("barcode")
    /\ fetchResult \in MatchesOf("id")

\* C9 as stated: the id match whenever the id lookup has a match, else the
\* barcode match, else the sku match, else null.
C9_Original == fetchPc = "returned" => PriorityResult

-----------------------------------------------------------------------------
(* C2 *)

\* a step in which an extractProductData call finishes
ExtractionEnds ==
    /\ pending'.extractions # pending.extractions
    /\ pending'.extractions \subseteq pending.extractions

\* C2: while the barcode field is marked "scanned", no extraction that finishes
\* (from Process or from Rescan, whatever barcode its record carries) changes
\* the field's value or removes the mark.
C2_ScannedBarcodeKept ==
    [][ (dom.barcodeSource = "scanned" /\ ExtractionEnds)
            => (form'.barcode = form.barcode /\ dom'.barcodeSource = "scanned") ]_vars

\* the scanned code is in the marked field, and the record of the last
\* extraction, whose name is in the form, carries another barcode
C2_Witness ==
    /\ dom.barcodeSource = "scanned"
    /\ form.barcode = Code12
    /\ state.extractedData # NoData
    /\ Str(state.extractedData, "barcode") = Code13
    /\ form.name = state.extractedData.name
    /\ dom.status.text = "Product detected"

-----------------------------------------------------------------------------
(* C3 *)

\* C3 (as stated): while a record is being edited, no duplicate lookup is sent
\* to the store and no duplicate warning is raised.
C3_Original ==
    [][ (state.editingId # 0 /\ state'.editingId # 0)
            => /\ pending'.lookups \subseteq pending.lookups
               /\ dom'.barcodeDupWarning \in {0, dom.barcodeDupWarning} ]_vars

-----------------------------------------------------------------------------
(* C4 *)

\* the value is empty or is no 12- or 13-digit code
NoCompleteBarcode(value) ==
    ~(Len(value) \in {12, 13} /\ \A i \in DOMAIN value : value[i] \in Digits)

\* C4 (as stated): once the debounced check has run for a value of the barcode
\* field that is empty or no 12- or 13-digit code (no record being edited), no
\* duplicate warning is shown.
C4_Original ==
    [][ ( /\ timers.debounce.armed
          /\ ~timers'.debounce.armed
          /\ state.editingId = 0
          /\ Trim(form.barcode) = timers.debounce.value
          /\ NoCompleteBarcode(timers.debounce.value) )
            => dom'.barcodeDupWarning = 0 ]_vars

-----------------------------------------------------------------------------
(* C7 *)

\* a step in which saveProduct resumes with this answer of the store
Handles(response) ==
    /\ response \in pending.saveResponses
    /\ pending'.saveResponses = pending.saveResponses \ {response}

\* the duplicate dialog is filled with a text and scheduled to open
DuplicateReported == timers'.duplicateModal /\ dom'.saveBtnDisabled = FALSE

\* C7: when a save fails, a violation of the SKU's unique constraint fills the
\* duplicate dialog with a text containing "SKU" (and not "barcode"), a
\* violation of the barcode's with a text containing "barcode" (and not "SKU"),
\* and any other error leaves the dialog alone and shows the error text as a
\* "SAVE ERROR" or "DATABASE ERROR" status.
C7_ErrorClassification ==
    [][ \A response \in pending.saveResponses :
          (Handles(response) /\ response.error # <<>>) =>
             /\ response.error = SkuViolationText =>
                   /\ DuplicateReported
                   /\ Includes(dom'.duplicateMessage, <<"S","K","U">>)
                   /\ ~Includes(dom'.duplicateMessage, <<"b","a","r","c","o","d","e">>)
             /\ response.error = BarcodeViolationText =>
                   /\ DuplicateReported
                   /\ Includes(dom'.duplicateMessage, <<"b","a","r","c","o","d","e">>)
                   /\ ~Includes(dom'.duplicateMessage, <<"S","K","U">>)
             /\ response.error \in OtherSaveErrors =>
                   /\ dom'.duplicateMessage = dom.duplicateMessage
                   /\ timers'.duplicateModal = timers.duplicateModal
                   /\ dom'.status.text \in {"SAVE ERROR: ", "DATABASE ERROR: "}
                   /\ dom'.status.detail = response.error ]_vars

\* a save was refused for its barcode: the dialog, about to open, says so
\* while the form still holds the barcode of a stored product
C7_Witness ==
    /\ timers.duplicateModal
    /\ Includes(dom.duplicateMessage, <<"b","a","r","c","o","d","e">>)
    /\ \E r \in products : r.barcode = form.barcode /\ r.id # state.editingId

-----------------------------------------------------------------------------
(* C8 *)

\* C8 (as stated): a save refused as a duplicate leaves the form's fields as
\* submitted, both when saveProduct handles the refusal and when the user
\* dismisses the duplicate dialog.
C8_Original ==
    [][ /\ \A response \in pending.saveResponses :
              (Handles(response) /\ IsDuplicateError(response.error)) => form' = form
        /\ ( /\ dom.duplicateModal
             /\ ~dom'.duplicateModal
             /\ pending'.editFetches = pending.editFetches ) => form' = form ]_vars

-----------------------------------------------------------------------------
(* C10 *)

\* the stored products that the data in the form collides with
Conflicting ==
    Collisions(products, collectFormData(form), state.editingId, "sku")
        \cup Collisions(products, collectFormData(form), state.editingId, "barcode")

\* C10 (as stated): when Edit Existing is chosen on the duplicate dialog and a
\* stored product collides with the data in the form, the product that the
\* lookups then fired retrieve from the store is one of the colliding products.
C10_Original ==
    [][ (dom.duplicateModal /\ Conflicting # {})
            => \A q \in pending'.editFetches \ pending.editFetches :
                  fetchProductForEdit(products, q.productId, q.barcode, q.sku, AllRows)
                      \in Conflicting ]_vars

-----------------------------------------------------------------------------
(* C11 *)

\* a step in which startApp or the interval calls ensureAuthenticated
CallBegins == authPc.at = "idle" /\ clock' = clock /\ startup' # startup

\* the stored expiry is more than 60 seconds (one minute) in the future
MoreThanAMinuteLeft == nbSession # <<>> /\ nbSession[1].expires_at - clock > 1

RefreshTokenStored == nbSession # <<>> /\ nbSession[1].refresh_token

\* C11: a call of ensureAuthenticated returns the cached token with no request
\* and the stored session untouched when the stored expiry is more than 60
\* seconds away; otherwise it sends a refresh when a refresh token is stored
\* and a sign-in when none is; a sign-in is sent only then or after a refresh
\* failed; a refresh or sign-in that succeeds leaves the token it returns, a
\* refresh token and the expiry one token lifetime ahead stored; a refresh that
\* fails leaves no stored session.
C11_SessionContract ==
    [][ /\ (CallBegins /\ MoreThanAMinuteLeft) =>
              /\ authPc' = NoCall
              /\ authResult' = [ended |-> "returned",
                                access_token |-> nbSession[1].access_token,
                                requests |-> 0]
              /\ nbSession' = nbSession
        /\ (CallBegins /\ ~MoreThanAMinuteLeft) =>
              /\ authPc'.at = IF RefreshTokenStored THEN "refresh" ELSE "signIn"
              /\ authResult'.ended = "none"
        /\ (authPc'.at = "signIn" /\ authPc.at # "signIn") =>
              \/ authPc.at = "refresh"
              \/ CallBegins /\ ~MoreThanAMinuteLeft /\ ~RefreshTokenStored
        /\ (authPc.at # "idle" /\ authResult'.ended = "returned") =>
              /\ authResult'.access_token = clock + TokenLifetime
              /\ nbSession' = << [access_token |-> authResult'.access_token,
                                  refresh_token |-> TRUE,
                                  expires_at |-> clock + TokenLifetime] >>
        /\ (authPc.at = "refresh" /\ authPc'.at = "signIn") => nbSession' = <<>>
      ]_vars

\* C11 witness: a call found the stored session stale, its refresh failed and
\* its sign-in succeeded, and the new session is stored.
C11_Witness ==
    /\ authResult.ended = "returned"
    /\ authResult.requests = 2
    /\ nbSession # <<>>
    /\ nbSession[1].access_token = authResult.access_token

-----------------------------------------------------------------------------
(* C12 *)

\* C12 as stated: from startup on, the token in state.accessToken has not
\* expired.
C12_Original == startup.phase = "running" => startup.accessToken > clock

-----------------------------------------------------------------------------
(* C13 *)

\* C13: when the ensureAuthenticated call of startApp throws, startup halts;
\* a halted page has no listeners wired, no interval started and no token,
\* shows the authentication-failure message, and nothing further happens to
\* it: no request is sent again and the session storage stays as it is.
C13_StartupHalts ==
    [][ /\ (authPc.caller = "startApp" /\ authResult'.ended = "threw") =>
              startup'.phase = "halted"
        /\ startup'.phase = "halted" =>
              /\ ~startup'.listeners
              /\ startup'.nextRefresh = 0
              /\ startup'.accessToken = NoToken
              /\ startup'.message = AuthFailedMessage
        /\ startup.phase = "halted" =>
              /\ startup' = startup
              /\ authPc' = NoCall
              /\ authResult' = authResult
              /\ nbSession' = nbSession
      ]_vars

\* C13 witness: startup halted after a failed refresh and a failed sign-in,
\* and two hours later nothing has been retried.
C13_Witness ==
    /\ startup.phase = "halted"
    /\ authResult = [ended |-> "threw", access_token |-> NoToken, requests |-> 2]
    /\ clock = MaxClock

-----------------------------------------------------------------------------
(* C14 *)

\* a step in which stopBarcodeScanner runs, called from the Stop button or by
\* captureBarcodeAndStop
StopRuns ==
    \/ StopBarcodeScanner
    \/ CaptureBarcodeAndStop /\ state.lastDetectedCode # <<>>

-----------------------------------------------------------------------------
(* C15 *)

\* a step in which the synchronous part of startBarcodeScanner runs
StartRuns == (StartBarcodeScanner /\ quagga.loaded) \/ QuaggaLoaded

\* C15: a start empties the buffer; a decoded string of length 12 or 13
\* replaces the buffer and one of any other length leaves it alone, and nothing
\* else fills it, so the buffer holds the most recent accepted string since
\* the last start. captureBarcodeAndStop with a code buffered writes it into
\* the barcode field, marks the field "scanned" and stops the reader (buffer
\* empty, callback removed); with nothing buffered it changes nothing and the
\* scanner keeps running.
C15_CaptureAndStop ==
    [][ /\ StartRuns => state'.lastDetectedCode = <<>>
        /\ \A code \in DecodedStrings \cup {Code13} :
              DetectedCode(code) =>
                 state'.lastDetectedCode =
                    IF Len(code) = 12 \/ Len(code) = 13 THEN code
                    ELSE state.lastDetectedCode
        /\ (state'.lastDetectedCode # state.lastDetectedCode
             /\ state'.lastDetectedCode # <<>>) =>
                 \E code \in DecodedStrings \cup {Code13} : DetectedCode(code)
        /\ (CaptureBarcodeAndStop /\ state.lastDetectedCode # <<>>) =>
              /\ form'.barcode = state.lastDetectedCode
              /\ dom'.barcodeSource = "scanned"
              /\ state'.lastDetectedCode = <<>>
              /\ ~detectionHandler'
              /\ quagga'.callbacks = 0
        /\ (CaptureBarcodeAndStop /\ state.lastDetectedCode = <<>>) =>
              UNCHANGED <<form, dom, state, detectionHandler, quagga, timers,
                          pending, products>>
      ]_vars

\* C15 witness: the 13-digit code was buffered and captured: the field holds
\* it, marked, the event was emitted and the reader is stopped.
C15_Witness ==
    /\ form.barcode = Code13
    /\ dom.barcodeSource = "scanned"
    /\ state.lastDetectedCode = <<>>
    /\ ~detectionHandler
    /\ quagga.callbacks = 0
    /\ emitted = <<[event |-> "barcode:scanned", code |-> Code13]>>

-----------------------------------------------------------------------------
(* C16 *)

\* the response of some image carries the rate-limit signal
SomeRateLimited ==
    \E i \in 1..Len(results) : results[i].error = RateLimitText

\* C16 as stated: when the response of any image carries a rate-limit signal
\* the extraction ends with the rate-limit message, whichever image it is and
\* whatever the other responses are.
C16_Original ==
    (mergePc \in {"thrown", "merged"} /\ SomeRateLimited)
        => mergeThrown = RateLimitMessage

-----------------------------------------------------------------------------
(* C17 *)

\* a step in which an extraction ends without "Product detected"
ExtractionFails ==
    \/ ExtractRejected
    \/ ExtractComplete /\ dom'.status.text # "Product detected"

CompleteEmitted ==
    \E i \in 1..Len(emitted) : emitted[i].event = "extraction:complete"

\* C17: when an extraction fails (a request or response rejected, or a result
\* that reports failure, be it the first image's or a later one's after others
\* succeeded) the form fields, state.extractedData and the save button are as
\* they were before, and no extraction:complete event is emitted.
C17_FailureLeavesForm ==
    [][ ExtractionFails =>
          /\ form' = form
          /\ state'.extractedData = state.extractedData
          /\ dom'.saveBtnDisabled = dom.saveBtnDisabled
          /\ ~CompleteEmitted' ]_vars

\* C17 witness: with two images chosen and a record already in the form, an
\* extraction ended with the error the endpoint reported for one image.
C17_Witness ==
    /\ Len(state.currentImages) = 2
    /\ dom.status.text = "Error: " \o RateLimitMessage
    /\ state.extractedData \in AppData
    /\ form = populateForm(EmptyForm, "", state.extractedData)
    /\ ~dom.saveBtnDisabled
    /\ pending.extractions = {}

-----------------------------------------------------------------------------
(* C18 *)

\* C18 as stated: after populateForm wrote an extracted record, the SKU field
\* holds the SKU generated from the style, brand, color and size now in the
\* form, which is empty when the record has no style number.
C18_Original ==
    [][ (ExtractComplete /\ dom'.status.text = "Product detected") =>
          /\ form'.sku = generateSKUFromForm(form')
          /\ form'.style_number = <<>> => form'.sku = <<>> ]_vars

-----------------------------------------------------------------------------
(* C19 *)

\* C19: when saveProduct resumes with the store's answer to a save that
\* succeeded (create or update), state.currentImages is empty,
\* state.extractedData is null, the form is reset and the barcode's "scanned"
\* mark removed, the save button is disabled, and the handler emitted exactly
\* one event, product:saved, carrying the record the store holds; after an
\* update state.editingId is null as well.
C19_AfterSave ==
    [][ \A response \in pending.saveResponses :
          (Handles(response) /\ response.error = <<>>) =>
             /\ state'.currentImages = <<>>
             /\ state'.extractedData = NoData
             /\ form' = EmptyForm
             /\ dom'.barcodeSource = ""
             /\ dom'.saveBtnDisabled
             /\ emitted' = << [event |-> "product:saved",
                               product |-> response.savedData[1]] >>
             /\ response.savedData[1] \in products
             /\ response.savedData[1].name = response.request.formData.name
             /\ response.request.isEditing => state'.editingId = 0 ]_vars

\* C19 witness: an update was saved: the event carries the updated record, the
\* form is reset and the edit mode is left.
C19_Witness ==
    /\ Len(emitted) = 1
    /\ emitted[1].event = "product:saved"
    /\ emitted[1].product \in products
    /\ dom.status.text = "Product updated!"
    /\ state.editingId = 0
    /\ form = EmptyForm

-----------------------------------------------------------------------------
(* C20 *)

ExportEnded == export.pc \in {"done", "empty", "failed"}

\* every stored record is in the collected data exactly once, and nothing else
CollectedOnce ==
    /\ Len(export.data) = Cardinality(exportStore)
    /\ \A record \in exportStore :
          Cardinality({i \in DOMAIN export.data : export.data[i] = record}) = 1

\* C20: an export of a store that is not modified meanwhile, with every page
\* request answered or failing, ends for every number of stored records (none,
\* fewer than a page, exactly a page, several full pages); when it ends without
\* a failed request it has collected every stored record exactly once, in id
\* order, and the file has a row for each; when a page request fails, and
\* when the store is empty, no file is produced.
C20_ExportPaging ==
    /\ [](export.pc \in {"done", "empty"} =>
             CollectedOnce /\ export.data = InIdOrder(exportStore))
    /\ [](export.pc = "done" => export.file = export.data /\ exportStore # {})
    /\ [](export.pc = "empty" => exportStore = {})
    /\ [](export.pc # "done" => export.file = <<>>)
    /\ [][export.pc = "failed" => export'.pc = "failed"]_vars
    /\ (export.pc = "fetching" ~> ExportEnded)

\* C20 witness: a store of exactly two full pages was exported: the loop asked
\* for a third, empty page and the file has every record.
C20_Witness ==
    /\ Cardinality(exportStore) = 2 * PAGE_SIZE
    /\ export.pc = "done"
    /\ export.page = 3
    /\ Len(export.file) = 2 * PAGE_SIZE

-----------------------------------------------------------------------------
(* C21 *)

\* C21: every extractProductData call eventually finishes, whatever the
\* endpoint does: whenever the loading indicator is shown, eventually it is
\* hidden and the Process/Rescan button enabled again.
C21_Original ==
    transfer.loading ~> (~transfer.loading /\ ~transfer.btnDisabled)

-----------------------------------------------------------------------------
(* C22 *)

\* the input event a call of the debounced function follows
LastInputBefore(call) == typing.inputs[call.inputsBefore]

\* C22: the duplicate check of the barcode field is debounced on the trailing
\* edge: every call of the debounced function follows an input event by at
\* least 500 ms with no input event in between, has the (trimmed) value of
\* that event, and is the only call that follows it; so a burst of events
\* less than 500 ms apart leads to at most one query, for its last value, and
\* a value superseded within the delay is never queried. The store is
\* queried only by such a call.
C22_TrailingEdge ==
    /\ \A i \in DOMAIN typing.calls :
          LET call == typing.calls[i]
          IN  /\ call.inputsBefore >= 1
              /\ call.value = Trim(LastInputBefore(call).value)
              /\ call.at >= LastInputBefore(call).at + 500
              /\ \A j \in DOMAIN typing.calls :
                    typing.calls[j].inputsBefore = call.inputsBefore => j = i
    /\ \A k \in DOMAIN typing.inputs :
          (k < Len(typing.inputs) /\ typing.inputs[k + 1].at - typing.inputs[k].at < 500)
             => \A i \in DOMAIN typing.calls : typing.calls[i].inputsBefore # k

\* C22 witness: three input events 250 ms apart were followed by one call,
\* 500 ms after the last, which queried the store for the last value.
C22_Witness ==
    /\ Len(typing.inputs) = 3
    /\ typing.inputs[2].at = typing.inputs[1].at + 250
    /\ typing.inputs[3].at = typing.inputs[2].at + 250
    /\ typing.inputs[3].value # typing.inputs[2].value
    /\ Len(typing.calls) = 1
    /\ typing.calls[1].step = "send"
    /\ typing.calls[1].at = typing.inputs[3].at + 500

-----------------------------------------------------------------------------
(* C23 *)

\* C23: every object URL that was created for a preview and has not been
\* revoked is the preview of an image that is still in state.currentImages.
C23_Original ==
    \A url \in previews.objectURLs :
       \E i \in DOMAIN previews.currentImages : previews.currentImages[i] = url

-----------------------------------------------------------------------------
(* C24 *)

\* C24: for every source image of width w and height h the encoded image has
\* width min(w, 1920) and the height scaled by the same factor, rounded down;
\* encoding the output again gives the same dimensions.
C24_Original ==
    encode.pc = "encoded" =>
       LET w == encode.img.width
           h == encode.img.height
           min == IF w < 1920 THEN w ELSE 1920
       IN  /\ encode.canvas.width = min
           /\ encode.canvas.height = (h * min) \div w
           /\ compressImageToWebP(encode.canvas) = encode.canvas

-----------------------------------------------------------------------------
(* C25 *)

\* C25: the overlay signs in as a name only by the answer to a PIN check
\* sent for that name that returned true, or to a creation of a user of that
\* name that succeeded: the current user is the name the answer was for.
C25_Original ==
    login.currentUser # "" => login.currentUser = login.answeredFor

-----------------------------------------------------------------------------
(* C26 *)

\* C26: every step that resets the form for a new product (a save that
\* succeeded, cancelEdit, the duplicate dialog dismissed) leaves edit mode, so
\* that the form is never empty, ready for a new product, while
\* state.editingId still names the record edited before.
C26_Original ==
    [][(form # EmptyForm /\ form' = EmptyForm) => state'.editingId = 0]_vars

-----------------------------------------------------------------------------
(* C27 *)

\* the save requests sent whose answer saveProduct has not handled yet
SavesInFlight == Cardinality(pending.saves) + Cardinality(pending.saveResponses)

\* C27: at most one save request is in flight at any time, and the save
\* button is disabled from the moment a request is sent until its answer is
\* handled.
C27_Original ==
    /\ SavesInFlight <= 1
    /\ SavesInFlight > 0 => dom.saveBtnDisabled

-----------------------------------------------------------------------------
(* C28 *)

\* an extraction ends whose images are no longer the current images: the
\* images were cleared since it was started
LateResult ==
    \E e \in pending.extractions :
       /\ e \notin pending'.extractions
       /\ e.images # Len(state.currentImages)

\* C28: the result of an extraction whose images are no longer the current
\* images is not applied: the form, state.extractedData and the save button
\* stay as they are.
C28_Original ==
    [][LateResult => /\ form' = form
                     /\ state'.extractedData = state.extractedData
                     /\ dom'.saveBtnDisabled = dom.saveBtnDisabled]_vars

-----------------------------------------------------------------------------
(* C29 *)

\* the step is a capture that wrote the scanner's code into the barcode field
CapturedIntoField ==
    \E i \in 1..Len(emitted') :
       /\ emitted'[i].event = "barcode:scanned"
       /\ emitted'[i].code = form'.barcode

\* C29: a barcode field that is marked "scanned" after a step either was just
\* written by a capture or was marked before the step and kept its value, so
\* the marked field always holds the captured code; a step that empties or
\* replaces the field also removes the mark.
C29_Original ==
    [][dom'.barcodeSource = "scanned"
          => \/ CapturedIntoField
             \/ dom.barcodeSource = "scanned" /\ form'.barcode = form.barcode]_vars

-----------------------------------------------------------------------------
(* C30 *)

\* no duplicate lookup is pending: none is awaiting its answer and no debounced
\* check is still to run
LookupsSettled == pending.lookups = {} /\ ~timers.debounce.armed

\* C30: when no duplicate lookup is pending, the warning is shown exactly when
\* state.duplicateProductId is set, and then the record it names carries the
\* barcode that is in the field.
C30_Original ==
    LookupsSettled =>
       /\ (dom.barcodeDupWarning # 0) <=> (state.duplicateProductId # 0)
       /\ dom.barcodeDupWarning # 0 =>
             \E row \in products : /\ row.id = dom.barcodeDupWarning
                                   /\ row.barcode = form.barcode

=============================================================================
